---- MODULE Spec2Model ----
(***************************************************************************)
(* A model of the indicator playground: the base OHLC sequence, its        *)
(* aggregation into coarser timeframes, the edit propagation of            *)
(* applyEditToGroup and of the drag handlers, and the undo/redo stacks.    *)
(*                                                                         *)
(* Numbers.  A JavaScript number is a binary floating-point value: every   *)
(* + - * / rounds its exact result to the nearest value with a fixed       *)
(* number of significant bits (ties to even).  The model keeps that        *)
(* behaviour at a reduced width: a number is an integer count of units of  *)
(* 2^-FracBits and carries at most Precision significant bits.  Math.max,  *)
(* Math.min and the comparisons are exact, as they are in the program.     *)
(* Magnitudes stay far below overflow, so Infinity and NaN never arise     *)
(* from arithmetic.                                                        *)
(*                                                                         *)
(* React.  An updater function passed to setBaseCandles by a pointer-move  *)
(* listener runs inside the call when the component has no update waiting, *)
(* and otherwise waits in the queue until the next render.  Pointer-down,  *)
(* clicks and key strokes are handled with the component rendered, and     *)
(* their updates are rendered before the next event.                       *)
(*                                                                         *)
(* Sequences are 1-based in TLA+; At(s, i) reads the element the program   *)
(* calls s[i].                                                             *)
(***************************************************************************)
EXTENDS Integers, Sequences, FiniteSets, TLC

\* ------------------------------------------------------------------ bounds
\* Significant bits of a number (53 in the program).
Precision == 5
\* Bits after the binary point of the finest representable step.
FracBits == 3
\* Base bars per aggregate bar of the two coarser timeframes of the model.
GroupA == 2
GroupB == 3
\* Denominator of the values Math.random() is drawn from.
RandDenom == 3
\* The model's price scale: toFixed2 keeps multiples of 1/PriceScale (1/100 in
\* the program), and generation starts at StartPrice (100 in the program).
PriceScale == 2
StartPrice == 2
\* Bars of the initial sequence (80 in the program) and the longest base
\* sequence Add Bar may build.
InitBars == 3
MaxBars == 6
\* Largest batch count of Add xN.
MaxBatch == 3
\* Discrete events (pointer-down, field edit, button) per behaviour, and
\* pointer-move events per behaviour.
MaxOps == 2
MaxMoves == 2
\* Longest base sequence a direct call of a pure function is given.
LabBars == 4
\* Longest price sequence a direct call of an indicator is given.
IndLen == 4
\* The model's 100 in rsi: the top of the index scale, and the value rs takes
\* when the average loss is 0.
RsiScale == 4
\* The model's 5: the fewest bars a zoom or a timeframe change shows.
MinCount == 2
\* The width of the chart's drawing area in pixels.
InnerWidth == 4

\* ------------------------------------------------------------- numbers
RECURSIVE Pow2(_)
Pow2(n) == IF n <= 0 THEN 1 ELSE 2 * Pow2(n - 1)

RECURSIVE BitLength(_)
BitLength(q) == IF q <= 0 THEN 0 ELSE 1 + BitLength(q \div 2)

Abs(x) == IF x < 0 THEN -x ELSE x

\* The representation of the integer literal n.
One == Pow2(FracBits)
Lit(n) == n * One

\* Bits by which the integer part q of a quotient exceeds the precision.
Excess(q) == IF BitLength(q) > Precision THEN BitLength(q) - Precision ELSE 0

\* The multiple of pw nearest to a / d, where ulpd = d * pw; a tie goes to
\* the even multiple.
RoundAt(a, ulpd, pw) ==
  (IF 2 * (a % ulpd) > ulpd \/ (2 * (a % ulpd) = ulpd /\ (a \div ulpd) % 2 = 1)
     THEN (a \div ulpd) + 1 ELSE a \div ulpd) * pw

RoundPow(a, d, pw) == RoundAt(a, d * pw, pw)

\* a / d (both positive) rounded to Precision significant bits.
RoundMag(a, d) == RoundPow(a, d, Pow2(Excess(a \div d)))

\* The exact rational num/den (in units) rounded to Precision significant
\* bits, ties to even.
RoundRatio(num, den) ==
  IF (num < 0) = (den < 0) THEN RoundMag(Abs(num), Abs(den))
  ELSE -RoundMag(Abs(num), Abs(den))

FAdd(a, b) == RoundRatio(a + b, 1)
FSub(a, b) == RoundRatio(a - b, 1)
FMul(a, b) == RoundRatio(a * b, One)
FDiv(a, b) == RoundRatio(a * One, b)

Max2(a, b) == IF a >= b THEN a ELSE b
Min2(a, b) == IF a <= b THEN a ELSE b
Max3(a, b, c) == Max2(Max2(a, b), c)
Min3(a, b, c) == Min2(Min2(a, b), c)

\* Math.round: the nearest integer, halves toward +Infinity.
MathRound(x) == ((2 * x + One) \div (2 * One)) * One

clamp(n, lo, hi) == Min2(hi, Max2(lo, n))

\* Math.round(n * 100) / 100, with PriceScale the model's 100.
toFixed2(n) == FDiv(MathRound(FMul(n, Lit(PriceScale))), Lit(PriceScale))

Infinity == 1000000000

\* ------------------------------------------------------------- candles
Candle(t, o, h, l, c) == [time |-> t, open |-> o, high |-> h, low |-> l, close |-> c]

At(s, i) == s[i + 1]
Put(s, i, v) == [s EXCEPT ![i + 1] = v]
Idx(s) == 0 .. (Len(s) - 1)

BodyMax(c) == Max2(c.open, c.close)
BodyMin(c) == Min2(c.open, c.close)

\* A handler that moved an open or a close leaves the bar unwidened.
WidenSkipped(c) == c

\* The widening the handlers apply after they move an open or a close:
\* high = Math.max(high, open, close), low = Math.min(low, open, close).
Widen(c) == [c EXCEPT !.high = Max3(c.high, c.open, c.close),
                      !.low = Min3(c.low, c.open, c.close)]

\* An edit of an open leaves the bar before it as it is.
JoinPrevSkipped(out, i) == out

\* "previous close equals current open": bar i - 1, if there is one, takes
\* the open of bar i as its close and is widened.
JoinPrev(out, i) ==
  IF i - 1 >= 0
    THEN Put(out, i - 1, Widen([At(out, i - 1) EXCEPT !.close = At(out, i).open]))
    ELSE out

\* An edit of a close leaves the bar after it as it is.
JoinNextSkipped(out, i) == out

\* "next open equals current close": bar i + 1, if there is one, takes the
\* close of bar i as its open and is widened.
JoinNext(out, i) ==
  IF i + 1 < Len(out)
    THEN Put(out, i + 1, Widen([At(out, i + 1) EXCEPT !.open = At(out, i).close]))
    ELSE out

\* ---------------------------------------------------------- timeframes
Timeframes == {"1m", "5m", "15m"}
TF_TO_MINUTES == [tf \in Timeframes |->
                    IF tf = "1m" THEN 1 ELSE IF tf = "5m" THEN GroupA ELSE GroupB]

\* --------------------------------------------------------- aggregation
\* The high of every group is the high of its first bar.
RunHighFirst(s, i, end, hi) == At(s, i).high

\* The low of every group is the low of its first bar.
RunLowFirst(s, i, end, lo) == At(s, i).low

\* The loop "if (c.high > hi) hi = c.high" over base indices i..end.
RECURSIVE RunHigh(_, _, _, _)
RunHigh(s, i, end, hi) ==
  IF i > end THEN hi
  ELSE RunHigh(s, i + 1, end, IF At(s, i).high > hi THEN At(s, i).high ELSE hi)

RECURSIVE RunLow(_, _, _, _)
RunLow(s, i, end, lo) ==
  IF i > end THEN lo
  ELSE RunLow(s, i + 1, end, IF At(s, i).low < lo THEN At(s, i).low ELSE lo)

\* The last base index of the group that starts at start.
GroupEnd(base, g, start) == Min2(Len(base) - 1, start + g - 1)

\* One pass of the aggregation loop for group gi.
AggBar(base, g, gi) ==
  Candle(gi, At(base, gi * g).open,
         RunHigh(base, gi * g, GroupEnd(base, g, gi * g), -Infinity),
         RunLow(base, gi * g, GroupEnd(base, g, gi * g), Infinity),
         At(base, GroupEnd(base, g, gi * g)).close)

\* An aggregation that also turns a trailing incomplete group into a bar.
AggregateCeil(base, g) ==
  IF g <= 1 THEN base
  ELSE [k \in 1 .. ((Len(base) + g - 1) \div g) |-> AggBar(base, g, k - 1)]

\* An aggregation whose group count is one short when g divides the length.
AggregateShort(base, g) ==
  [k \in 1 .. ((Len(base) - 1) \div g) |-> AggBar(base, g, k - 1)]

\* The memoised "candles": the base sequence itself at 1m, else one bar for
\* each of the Math.floor(n / g) groups.
Aggregate(base, g) ==
  IF g <= 1 THEN base
  ELSE [k \in 1 .. (Len(base) \div g) |-> AggBar(base, g, k - 1)]

\* ------------------------------------------------------ applyEditToGroup
\* Math.random() is r / RandDenom with r in 0 .. RandDenom-1.
randIndex(lo, hi, r) == lo + ((r * (hi - lo + 1)) \div RandDenom)

\* The indices of i..end that are in keep, ascending: the array a
\* "for (i = start; i <= end; i++) if (...) xs.push(i)" loop builds.
RECURSIVE Collect(_, _, _)
Collect(i, end, keep) ==
  IF i > end THEN << >>
  ELSE (IF i \in keep THEN <<i>> ELSE << >>) \o Collect(i + 1, end, keep)

\* Math.max(...allowedMinHigh) and Math.min(...allowedMaxLow).
RECURSIVE FloorHigh(_, _, _)
FloorHigh(s, i, end) ==
  IF i > end THEN -Infinity
  ELSE Max2(Max2(At(s, i).open, At(s, i).close), FloorHigh(s, i + 1, end))

RECURSIVE CeilLow(_, _, _)
CeilLow(s, i, end) ==
  IF i > end THEN Infinity
  ELSE Min2(Min2(At(s, i).open, At(s, i).close), CeilLow(s, i + 1, end))

\* field === "open": the first bar of the group, moved by delta and widened,
\* then the bar before it joined.
MovedOpen(c, newVal) == Widen([c EXCEPT !.open = FAdd(c.open, FSub(newVal, c.open))])
EditOpen(prev, start, newVal) ==
  JoinPrev(Put(prev, start, MovedOpen(At(prev, start), newVal)), start)

\* field === "close": the last bar of the group, then the bar after it.
MovedClose(c, newVal) == Widen([c EXCEPT !.close = FAdd(c.close, FSub(newVal, c.close))])
EditClose(prev, end, newVal) ==
  JoinNext(Put(prev, end, MovedClose(At(prev, end), newVal)), end)

\* "maxIdxs.length ? maxIdxs[randIndex(0, maxIdxs.length - 1)]
\*                 : randIndex(start, end)".
PickIndex(idxs, start, end, r) ==
  IF Len(idxs) > 0 THEN At(idxs, randIndex(0, Len(idxs) - 1, r))
  ELSE randIndex(start, end, r)

\* field === "high" --------------------------------------------------------
ClampUp(target, floorHigh) == IF target < floorHigh THEN floorHigh ELSE target

MaxIdxs(prev, start, end, aggHigh) ==
  Collect(start, end, {i \in start .. end : At(prev, i).high = aggHigh})

\* The write of the high also resets the bar's low to its body minimum.
SetHighFlat(out, k, target) ==
  Put(out, k, [At(out, k) EXCEPT !.high = Max2(target, Max2(At(out, k).open, At(out, k).close)),
                                 !.low = Min2(At(out, k).open, At(out, k).close)])

\* "c.high = Math.max(target, Math.max(c.open, c.close))" on bar k.
SetHigh(out, k, target) ==
  Put(out, k, [At(out, k) EXCEPT !.high = Max2(target, Max2(At(out, k).open, At(out, k).close))])

\* The clamp loop of the lowering branch leaves every high where it is.
LowerHighsSkipped(out, start, end, target) == out

\* "lower: clamp all highs down to target respecting constraints".
LowerHighs(out, start, end, target) ==
  [j \in 1 .. Len(out) |->
     IF (j - 1) >= start /\ (j - 1) <= end
       THEN [out[j] EXCEPT !.high = Max2(Max2(out[j].open, out[j].close),
                                         Min2(out[j].high, target))]
       ELSE out[j]]

HighCandidates(out, start, end, target) ==
  Collect(start, end, {i \in start .. end : Max2(At(out, i).open, At(out, i).close) <= target})

\* "ensure at least one equals target if feasible".
ForceHigh(out, candidates, target, r) ==
  IF Len(candidates) > 0
    THEN SetHigh(out, At(candidates, randIndex(0, Len(candidates) - 1, r)), target)
    ELSE out

LowerTo(lowered, start, end, target, r) ==
  ForceHigh(lowered, HighCandidates(lowered, start, end, target), target, r)

EditHighTo(prev, start, end, aggHigh, target, r) ==
  IF target >= aggHigh
    THEN SetHigh(prev, PickIndex(MaxIdxs(prev, start, end, aggHigh), start, end, r), target)
    ELSE LowerTo(LowerHighs(prev, start, end, target), start, end, target, r)

EditHigh(prev, start, end, newVal, r) ==
  EditHighTo(prev, start, end, RunHigh(prev, start, end, -Infinity),
             ClampUp(newVal, FloorHigh(prev, start, end)), r)

\* field === "low" ---------------------------------------------------------
ClampDown(target, ceilLow) == IF target > ceilLow THEN ceilLow ELSE target

MinIdxs(prev, start, end, aggLow) ==
  Collect(start, end, {i \in start .. end : At(prev, i).low = aggLow})

\* "c.low = Math.min(target, Math.min(c.open, c.close))" on bar k.
SetLow(out, k, target) ==
  Put(out, k, [At(out, k) EXCEPT !.low = Min2(target, Min2(At(out, k).open, At(out, k).close))])

\* The clamp loop of the raising branch leaves every low where it is.
RaiseLowsSkipped(out, start, end, target) == out

\* "raise: clamp all lows up to target respecting constraints".
RaiseLows(out, start, end, target) ==
  [j \in 1 .. Len(out) |->
     IF (j - 1) >= start /\ (j - 1) <= end
       THEN [out[j] EXCEPT !.low = Min2(Min2(out[j].open, out[j].close),
                                        Max2(out[j].low, target))]
       ELSE out[j]]

LowCandidates(out, start, end, target) ==
  Collect(start, end, {i \in start .. end : Min2(At(out, i).open, At(out, i).close) >= target})

ForceLow(out, candidates, target, r) ==
  IF Len(candidates) > 0
    THEN SetLow(out, At(candidates, randIndex(0, Len(candidates) - 1, r)), target)
    ELSE out

RaiseTo(raised, start, end, target, r) ==
  ForceLow(raised, LowCandidates(raised, start, end, target), target, r)

\* The branch that picks one bar at the aggregate low is taken whatever the
\* target.
EditLowToPick(prev, start, end, aggLow, target, r) ==
  SetLow(prev, PickIndex(MinIdxs(prev, start, end, aggLow), start, end, r), target)

EditLowTo(prev, start, end, aggLow, target, r) ==
  IF target <= aggLow
    THEN SetLow(prev, PickIndex(MinIdxs(prev, start, end, aggLow), start, end, r), target)
    ELSE RaiseTo(RaiseLows(prev, start, end, target), start, end, target, r)

EditLow(prev, start, end, newVal, r) ==
  EditLowTo(prev, start, end, RunLow(prev, start, end, Infinity),
            ClampDown(newVal, CeilLow(prev, start, end)), r)

EditField(prev, start, end, field, newVal, r) ==
  CASE field = "open" -> EditOpen(prev, start, newVal)
    [] field = "close" -> EditClose(prev, end, newVal)
    [] field = "high" -> EditHigh(prev, start, end, newVal, r)
    [] field = "low" -> EditLow(prev, start, end, newVal, r)

\* applyEditToGroup(prev, tfIndex, field, newVal) at granularity g, with r the
\* value its one call of Math.random() returns.
applyEditToGroup(prev, g, tfIndex, field, newVal, r) ==
  IF g <= 1 THEN prev
  ELSE IF tfIndex * g < 0 \/ tfIndex * g >= Len(prev) THEN prev
  ELSE EditField(prev, tfIndex * g, GroupEnd(prev, g, tfIndex * g), field, newVal, r)

\* ------------------------------------------------------------ generator
\* Sub-steps of one generated bar (the default of genGBMBars).
Substeps == 4
\* The factors Math.exp(step) a sub-step can multiply the price by.
ExpSteps == {One - 1, One + 1}

RECURSIVE PathFrom(_, _)
\* The prices after each sub-step of a path that starts at price and takes
\* the factors fs in order.
PathFrom(price, fs) ==
  IF fs = << >> THEN << >>
  ELSE <<FMul(price, Head(fs))>> \o PathFrom(FMul(price, Head(fs)), Tail(fs))

RECURSIVE SeqMax(_, _)
SeqMax(xs, acc) == IF xs = << >> THEN acc ELSE SeqMax(Tail(xs), Max2(acc, Head(xs)))
RECURSIVE SeqMin(_, _)
SeqMin(xs, acc) == IF xs = << >> THEN acc ELSE SeqMin(Tail(xs), Min2(acc, Head(xs)))

\* The bar pushed with its open not rounded.
GenBarOfRawOpen(i, last, path) ==
  Candle(i, last, toFixed2(SeqMax(path, last)),
         toFixed2(SeqMin(path, last)), toFixed2(path[Len(path)]))

\* The bar pushed for a path: open, high, low and close rounded by toFixed2.
GenBarOf(i, last, path) ==
  Candle(i, toFixed2(last), toFixed2(SeqMax(path, last)),
         toFixed2(SeqMin(path, last)), toFixed2(path[Len(path)]))

\* One iteration of the generator's bar loop: bar i opened at the unrounded
\* price last, its sub-steps taking the factors fs.
GenBar(i, last, fs) == GenBarOf(i, last, PathFrom(last, fs))

\* genGBMBars(n, start, ...) for the stream of factors rng yields: steps is a
\* sequence of n sequences of Substeps factors.
RECURSIVE genGBMBars(_, _, _, _)
genGBMBars(i, n, last, steps) ==
  IF i >= n THEN << >>
  ELSE <<GenBar(i, last, steps[i + 1])>>
         \o genGBMBars(i + 1, n, PathFrom(last, steps[i + 1])[Substeps], steps)

\* The factors of the sub-steps of n bars when the rng makes the factors
\* repeat the pattern p.
StreamOf(p, n) ==
  [b \in 1 .. n |-> [k \in 1 .. Substeps |-> p[(((b - 1) * Substeps + k - 1) % Len(p)) + 1]]]

\* The streams Math.random is let to yield, and the stream of mulberry32(1).
Patterns == {<<One + 1, One + 1, One - 1>>, <<One - 1, One - 1, One + 1>>,
             <<One + 1, One - 1, One - 1, One + 1, One + 1>>}
StepStreams(n) == {StreamOf(p, n) : p \in Patterns}
SeedStream(n) == StreamOf(<<One + 1, One - 1, One - 1>>, n)

\* ----------------------------------------------------------- mulberry32
\* A 32-bit word is <<hi, lo>>: its upper and its lower 16 bits.
Half == Pow2(16)

RECURSIVE BitXor(_, _)
BitXor(x, y) ==
  IF x = 0 THEN y
  ELSE IF y = 0 THEN x
  ELSE ((x + y) % 2) + 2 * BitXor(x \div 2, y \div 2)

RECURSIVE BitOr(_, _)
BitOr(x, y) ==
  IF x = 0 THEN y
  ELSE IF y = 0 THEN x
  ELSE (IF x % 2 = 1 \/ y % 2 = 1 THEN 1 ELSE 0) + 2 * BitOr(x \div 2, y \div 2)

Xor32(x, y) == <<BitXor(x[1], y[1]), BitXor(x[2], y[2])>>
Or32(x, y) == <<BitOr(x[1], y[1]), BitOr(x[2], y[2])>>

\* x + y, kept to 32 bits.
Add32(x, y) == <<(x[1] + y[1] + ((x[2] + y[2]) \div Half)) % Half, (x[2] + y[2]) % Half>>

\* x >>> n, for n < 16.
Shr32(x, n) ==
  <<x[1] \div Pow2(n), (x[2] \div Pow2(n)) + (x[1] % Pow2(n)) * Pow2(16 - n)>>

\* Byte i of x, byte 0 the lowest.
Byte(x, i) ==
  CASE i = 0 -> x[2] % 256
    [] i = 1 -> x[2] \div 256
    [] i = 2 -> x[1] % 256
    [] i = 3 -> x[1] \div 256

\* The sum of the products of the bytes of x and y whose weight is 256^w.
RECURSIVE ByteProducts(_, _, _, _)
ByteProducts(x, y, w, i) ==
  IF i > w THEN 0 ELSE Byte(x, i) * Byte(y, w - i) + ByteProducts(x, y, w, i + 1)

\* The word p0 + p1 * 2^8 + p2 * 2^16 + p3 * 2^24, kept to 32 bits.
FromProducts(p0, p1, p2, p3) ==
  <<(((p0 + (p1 % 256) * 256) \div Half) + (p1 \div 256) + p2 + (p3 % 256) * 256) % Half,
    (p0 + (p1 % 256) * 256) % Half>>

\* Math.imul(x, y): the low 32 bits of the product.
Imul32(x, y) ==
  FromProducts(ByteProducts(x, y, 0, 0), ByteProducts(x, y, 1, 0),
               ByteProducts(x, y, 2, 0), ByteProducts(x, y, 3, 0))

\* "seed >>> 0".
Uint32(seed) ==
  IF seed >= 0 THEN <<(seed \div Half) % Half, seed % Half>>
  ELSE <<Half - 1 - (((-seed - 1) \div Half) % Half), Half - 1 - ((-seed - 1) % Half)>>

\* mulberry32(seed): the variable a of the function it returns.
mulberry32(seed) == Uint32(seed)

\* "a = (a + 0x6D2B79F5) | 0".
Mulberry32Next(a) == Add32(a, <<27947, 31221>>)

\* "t = Math.imul(a ^ (a >>> 15), 1 | a)".
Mulberry32Mix(a) == Imul32(Xor32(a, Shr32(a, 15)), Or32(<<0, 1>>, a))

\* "t = (t + Math.imul(t ^ (t >>> 7), 61 | t)) ^ t".
Mulberry32Stir(t) ==
  Xor32(Add32(t, Imul32(Xor32(t, Shr32(t, 7)), Or32(<<0, 61>>, t))), t)

\* "(t ^ (t >>> 14)) >>> 0", the numerator of the value over 4294967296.
Mulberry32Word(t) == Xor32(t, Shr32(t, 14))

\* The value a call returns once a is advanced.
Mulberry32Out(a) == Mulberry32Word(Mulberry32Stir(Mulberry32Mix(a)))

\* Every instance advanced by a call of instance k.
RngStepShared(a, k) == [j \in 1 .. Len(a) |-> Mulberry32Next(a[k])]

\* The variables a of the instances after a call of instance k, and the
\* value the call returns.
RngStep(a, k) == [a EXCEPT ![k] = Mulberry32Next(a[k])]
RngValue(a, k) == Mulberry32Out(Mulberry32Next(a[k]))

\* Math.exp(step) at the model's precision, for the uniform values u1 and u2
\* of Box-Muller: above 1 where cos(2 pi u2) is positive, in the first and
\* the last quarter of the unit interval, below 1 elsewhere.
StepFactor(u1, u2) == IF (u2[1] \div 16384) \in {0, 3} THEN One + 1 ELSE One - 1

RECURSIVE RngFactors(_, _, _)
\* The factors of count sub-steps drawn from instance k:
\* "while (u1 === 0) { u1 = rng(); } u2 = rng();".
RngFactors(a, k, count) ==
  IF count = 0 THEN << >>
  ELSE IF RngValue(a, k) = <<0, 0>> THEN RngFactors(RngStep(a, k), k, count)
  ELSE <<StepFactor(RngValue(a, k), RngValue(RngStep(a, k), k))>>
         \o RngFactors(RngStep(RngStep(a, k), k), k, count - 1)

\* The factors fs as the sub-steps of n bars.
Chunks(fs, n) == [b \in 1 .. n |-> [j \in 1 .. Substeps |-> fs[(b - 1) * Substeps + j]]]

\* genGBMBars(n, start, mu, sigma, rng) with rng instance k.
GenRun(a, k, n, start) == genGBMBars(0, n, start, Chunks(RngFactors(a, k, n * Substeps), n))

\* --------------------------------------------------------- direct 1m edit
\* The field of the copy c0 set to newPrice.
SetField(c, field, newPrice) ==
  CASE field = "open" -> [c EXCEPT !.open = newPrice]
    [] field = "close" -> [c EXCEPT !.close = newPrice]
    [] field = "high" -> [c EXCEPT !.high = Max3(newPrice, c.open, c.close)]
    [] field = "low" -> [c EXCEPT !.low = Min3(newPrice, c.open, c.close)]

\* "c0.low = Math.min(c0.low, c0.open, c0.close, c0.high)", then
\* "c0.high = Math.max(c0.low, c0.open, c0.close, c0.high)".
NormLow(c) == [c EXCEPT !.low = Min2(Min3(c.low, c.open, c.close), c.high)]
NormHigh(c) == [c EXCEPT !.high = Max2(Max3(c.low, c.open, c.close), c.high)]

\* The continuity repair of the 1m branch.
Join1m(out, i, field) ==
  IF field = "open" THEN JoinPrev(out, i)
  ELSE IF field = "close" THEN JoinNext(out, i)
  ELSE out

\* The body of the 1m branch of onMove, handlePointerDown and the numeric
\* editor: field of base bar baseIdx set to newPrice.
Edit1m(prev, baseIdx, field, newPrice) ==
  Join1m(Put(prev, baseIdx, NormHigh(NormLow(SetField(At(prev, baseIdx), field, newPrice)))),
         baseIdx, field)

\* ------------------------------------------------------ moving averages
\* A value that may be null is << >> (null) or <<v>>.
Null == << >>
Some(v) == <<v>>

RECURSIVE SumRange(_, _, _, _)
\* "for (j = from; j <= to; j++) sum += values[j]" starting from sum.
SumRange(values, from, to, sum) ==
  IF from > to THEN sum ELSE SumRange(values, from + 1, to, FAdd(sum, At(values, from)))

\* A smoothing factor of 2 / period.
SmoothingWide(period) == FDiv(Lit(2), Lit(period))

\* The smoothing factor k = 2 / (period + 1).
Smoothing(period) == FDiv(Lit(2), Lit(period + 1))

\* One pass of the loop of ema: the value at i given the previous one.
EmaStep(values, period, i, prev) ==
  IF prev = Null
    THEN IF i >= period - 1
           THEN Some(FDiv(SumRange(values, i - (period - 1), i, 0), Lit(period)))
           ELSE Null
    ELSE Some(FAdd(FMul(At(values, i), Smoothing(period)),
                   FMul(prev[1], FSub(Lit(1), Smoothing(period)))))

RECURSIVE EmaLoop(_, _, _, _)
RECURSIVE EmaRest(_, _, _, _)
EmaRest(values, period, i, cur) == <<cur>> \o EmaLoop(values, period, i + 1, cur)
EmaLoop(values, period, i, prev) ==
  IF i >= Len(values) THEN << >>
  ELSE EmaRest(values, period, i, EmaStep(values, period, i, prev))

ema(values, period) ==
  IF period <= 0 THEN [i \in 1 .. Len(values) |-> Null]
  ELSE EmaLoop(values, period, 0, Null)

\* A running sum that never drops the value leaving the window.
SmaSumAll(values, period, i, sum) == FAdd(sum, At(values, i))

\* sum after "sum += values[i]; if (i >= period) sum -= values[i - period]".
SmaSum(values, period, i, sum) ==
  IF i >= period THEN FSub(FAdd(sum, At(values, i)), At(values, i - period))
  ELSE FAdd(sum, At(values, i))

RECURSIVE SmaLoop(_, _, _, _)
RECURSIVE SmaRest(_, _, _, _)
SmaRest(values, period, i, sum) ==
  <<IF i >= period - 1 THEN Some(FDiv(sum, Lit(period))) ELSE Null>>
    \o SmaLoop(values, period, i + 1, sum)
SmaLoop(values, period, i, sum) ==
  IF i >= Len(values) THEN << >>
  ELSE SmaRest(values, period, i, SmaSum(values, period, i, sum))

sma(values, period) ==
  IF period <= 0 THEN [i \in 1 .. Len(values) |-> Null]
  ELSE SmaLoop(values, period, 0, 0)

\* ------------------------------------------------------------------ rsi
\* "change = values[i] - values[i - 1]".
Change(values, i) == FSub(At(values, i), At(values, i - 1))

\* A loss total that never grows.
RsiLossKept(values, i, loss) == loss

\* "gain += up" with up = Math.max(0, change), "loss += down" with
\* down = Math.max(0, -change).
RsiGain(values, i, gain) == FAdd(gain, Max2(0, Change(values, i)))
RsiLoss(values, i, loss) == FAdd(loss, Max2(0, -Change(values, i)))

\* "rs = avgLoss === 0 ? 100 : avgGain / avgLoss; 100 - 100 / (1 + rs)".
RsiRs(avgGain, avgLoss) == IF avgLoss = 0 THEN Lit(RsiScale) ELSE FDiv(avgGain, avgLoss)
\* The index taken as 100 * rs, without the division that bounds it.
RsiValueUnbounded(avgGain, avgLoss) == FMul(Lit(RsiScale), RsiRs(avgGain, avgLoss))
RsiValue(avgGain, avgLoss) ==
  FSub(Lit(RsiScale), FDiv(Lit(RsiScale), FAdd(Lit(1), RsiRs(avgGain, avgLoss))))

\* The value stored at i = period from the totals of the first period steps.
RsiSeedValue(period, gain, loss) ==
  Some(RsiValue(FDiv(gain, Lit(period)), FDiv(loss, Lit(period))))

\* The first loop of rsi: it stores the seed value at index period.
RECURSIVE RsiSeedLoop(_, _, _, _, _, _)
RsiSeedAt(values, period, i, gain, loss, res) ==
  RsiSeedLoop(values, period, i + 1, gain, loss,
              IF i = period THEN Put(res, i, RsiSeedValue(period, gain, loss)) ELSE res)
RsiSeedLoop(values, period, i, gain, loss, res) ==
  IF i >= Len(values) THEN res
  ELSE IF i <= period
    THEN RsiSeedAt(values, period, i, RsiGain(values, i, gain), RsiLoss(values, i, loss), res)
    ELSE RsiSeedLoop(values, period, i + 1, gain, loss, res)

\* "avg = (avg * (period - 1) + x) / period".
Wilder(avg, period, x) == FDiv(FAdd(FMul(avg, Lit(period - 1)), x), Lit(period))

\* The second loop of rsi ("Wilder's smoothing after seed").
RECURSIVE RsiLoop(_, _, _, _, _, _, _, _)
RsiTotalsAt(values, period, i, gain, loss, avgGain, avgLoss, res) ==
  IF i = period
    THEN RsiLoop(values, period, i + 1, gain, loss,
                 FDiv(gain, Lit(period)), FDiv(loss, Lit(period)),
                 Put(res, i, RsiSeedValue(period, gain, loss)))
    ELSE RsiLoop(values, period, i + 1, gain, loss, avgGain, avgLoss, res)
RsiSmoothedAt(values, period, i, gain, loss, avgGain, avgLoss, res) ==
  RsiLoop(values, period, i + 1, gain, loss, avgGain, avgLoss,
          Put(res, i, Some(RsiValue(avgGain, avgLoss))))
RsiLoop(values, period, i, gain, loss, avgGain, avgLoss, res) ==
  IF i >= Len(values) THEN res
  ELSE IF i <= period
    THEN RsiTotalsAt(values, period, i, RsiGain(values, i, gain), RsiLoss(values, i, loss),
                     avgGain, avgLoss, res)
    ELSE RsiSmoothedAt(values, period, i, gain, loss,
                       Wilder(avgGain, period, Max2(0, Change(values, i))),
                       Wilder(avgLoss, period, Max2(0, -Change(values, i))), res)

rsi(values, period) ==
  IF period <= 0 THEN [i \in 1 .. Len(values) |-> Null]
  ELSE RsiLoop(values, period, 1, 0, 0, 0, 0,
               RsiSeedLoop(values, period, 1, 0, 0, [i \in 1 .. Len(values) |-> Null]))

\* ------------------------------------------------------------------ macd
\* The histogram taken as signal - macd.
MacdHistSwapped(macdArr, signal) ==
  [i \in 1 .. Len(macdArr) |->
     IF macdArr[i] = Null \/ signal[i] = Null THEN Null
     ELSE Some(FSub(signal[i][1], macdArr[i][1]))]

\* The undefined positions filled with 1.
OneFilled(macdArr) ==
  [i \in 1 .. Len(macdArr) |-> IF macdArr[i] = Null THEN Lit(1) ELSE macdArr[i][1]]

\* macdArr: the fast average less the slow one where both are defined.
MacdLine(emaFast, emaSlow) ==
  [i \in 1 .. Len(emaFast) |->
     IF emaFast[i] # Null /\ emaSlow[i] # Null
       THEN Some(FSub(emaFast[i][1], emaSlow[i][1]))
       ELSE Null]

\* "macdVals.map((v) => (Number.isNaN(v) ? 0 : v))": the line with 0 where it
\* is undefined.
ZeroFilled(macdArr) ==
  [i \in 1 .. Len(macdArr) |-> IF macdArr[i] = Null THEN 0 ELSE macdArr[i][1]]

\* signal: signalArr, hidden where the line is undefined.
MacdSignal(macdArr, signalArr) ==
  [i \in 1 .. Len(macdArr) |-> IF macdArr[i] = Null THEN Null ELSE signalArr[i]]

\* hist: the line less the signal where both are defined.
MacdHist(macdArr, signal) ==
  [i \in 1 .. Len(macdArr) |->
     IF macdArr[i] = Null \/ signal[i] = Null THEN Null
     ELSE Some(FSub(macdArr[i][1], signal[i][1]))]

MacdResult(macdArr, signal) ==
  [macd |-> macdArr, signal |-> signal, hist |-> MacdHist(macdArr, signal)]

MacdOf(macdArr, signalPeriod) ==
  MacdResult(macdArr, MacdSignal(macdArr, ema(ZeroFilled(macdArr), signalPeriod)))

macd(values, fast, slow, signalPeriod) ==
  MacdOf(MacdLine(ema(values, fast), ema(values, slow)), signalPeriod)

closeValues(cs) == [i \in 1 .. Len(cs) |-> cs[i].close]

\* The updater both branches of the moving-average onMove queue: delta added
\* to the close of base bar baseEnd, the open of the next bar repaired.
ShiftClose(prev, baseEnd, delta) ==
  JoinNext(Put(prev, baseEnd,
               Widen([At(prev, baseEnd) EXCEPT !.close = FAdd(At(prev, baseEnd).close, delta)])),
           baseEnd)

\* ---------------------------------------------------------------- state
VARIABLES
  baseCandles,       \* the base sequence (React state)
  timeframe,         \* the selected timeframe (React state)
  undoStack,         \* snapshots an undo restores (React state)
  redoStack,         \* snapshots a redo restores (React state)
  editSessionRef,    \* editSessionRef.current
  dragRef,           \* dragRef.current: Null or <<[index, field]>>
  maDragRef,         \* maDragRef.current: Null or <<[kind, period, index]>>
  isDraggingCandle,  \* listeners of the candle drag effect are registered
  isDraggingMA,      \* listeners of the moving-average drag effect are registered
  candles,           \* the memoised aggregate of the last render, which the
                     \* handlers' closures read
  pending,           \* updater functions passed to setBaseCandles that React
                     \* has queued for the next render
  dirty,             \* a state update has been made since the last render
  ops,               \* discrete events counted against MaxOps
  moves,             \* pointer-move events counted against MaxMoves
  track,             \* history of the last snapshot-pushing operation
  lab,               \* the last direct call of a pure function and its result
  viewStart,         \* index of the left-most visible bar (React state)
  viewCount,         \* number of visible bars (React state)
  prevTimeframeRef   \* prevTimeframeRef.current

vars == <<baseCandles, timeframe, undoStack, redoStack, editSessionRef, dragRef,
          maDragRef, isDraggingCandle, isDraggingMA, candles, pending, dirty,
          ops, moves, track, lab, viewStart, viewCount, prevTimeframeRef>>

Fields == {"open", "high", "low", "close"}
Rand == 0 .. (RandDenom - 1)

\* Prices a pointer position can stand for (before yToPrice rounds them) and
\* values that can be typed into the numeric editor.
PointerPrices == {One + 1, 5 * One}
TypedValues == {-One, One + 1}
\* Periods a moving-average line can be configured with.
Periods == {1, 2}
\* Pointer positions of a zoom, in pixels right of paddingLeft, and pointer
\* moves of a pan, in pixels.
ZoomXs == {0, InnerWidth \div 2}
PanMoves == {-1, 2}

yToPrice(v) == toFixed2(v)

G == TF_TO_MINUTES[timeframe]

NoTrack == [stage |-> "none", kind |-> "none", pre |-> << >>, post |-> << >>, undoLen |-> 0]
NoLab == [fn |-> "none", base |-> << >>, g |-> 1, index |-> 0, field |-> "none",
          value |-> 0, r |-> 0, kind |-> "none", period |-> 0, values |-> << >>,
          out |-> << >>]

\* No update waits for a render, and no drag is in progress: the state in
\* which a click, a key stroke or a pointer-down is handled.
Settled == ~dirty /\ pending = << >>
Idle == Settled /\ dragRef = Null /\ maDragRef = Null

\* The state after construction, but for the base sequence.
Mounted ==
  /\ timeframe = "1m"
  /\ undoStack = << >>
  /\ redoStack = << >>
  /\ editSessionRef = FALSE
  /\ dragRef = Null
  /\ maDragRef = Null
  /\ isDraggingCandle = FALSE
  /\ isDraggingMA = FALSE
  /\ candles = baseCandles
  /\ pending = << >>
  /\ dirty = FALSE
  /\ ops = 0
  /\ moves = 0
  /\ track = NoTrack
  /\ viewStart = 0
  /\ viewCount = Lit(InitBars)
  /\ prevTimeframeRef = "1m"

Init ==
  /\ baseCandles = genGBMBars(0, InitBars, Lit(StartPrice), SeedStream(InitBars))
  /\ Mounted
  /\ lab = NoLab

\* ------------------------------------------------------------- viewport
\* The viewport state as one value.
View == [start |-> viewStart, count |-> viewCount, prev |-> prevTimeframeRef]

SetView(v) ==
  /\ viewStart' = v.start
  /\ viewCount' = v.count
  /\ prevTimeframeRef' = v.prev

\* "g <= 1 ? length : Math.floor(length / g)".
AggLen(n, g) == IF g <= 1 THEN n ELSE n \div g

\* newCount of the timeframe effect.
NewCount(count, gOld, gNew, newLen) ==
  Min2(Max2(Lit(MinCount), MathRound(FDiv(FMul(Max2(Lit(1), count), Lit(gOld)), Lit(gNew)))),
       Max2(Lit(1), Lit(newLen)))

\* newStart of the timeframe effect.
NewStart(start, gOld, gNew, newLen, newCount) ==
  clamp(FDiv(FMul(start, Lit(gOld)), Lit(gNew)), 0, Max2(0, FSub(Lit(newLen), newCount)))

\* The viewport the timeframe effect sets for the granularities gOld, gNew.
Rescaled(v, tf, gOld, gNew, newLen) ==
  [start |-> NewStart(v.start, gOld, gNew, newLen,
                      NewCount(v.count, gOld, gNew, newLen)),
   count |-> NewCount(v.count, gOld, gNew, newLen),
   prev |-> tf]

\* The effect on [timeframe, baseCandles.length], run in a render that has
\* n base bars, the timeframe tf and the viewport v.
TimeframeEffect(v, n, tf) ==
  IF TF_TO_MINUTES[v.prev] = TF_TO_MINUTES[tf] THEN v
  ELSE IF AggLen(n, TF_TO_MINUTES[tf]) <= 0 THEN [v EXCEPT !.prev = tf]
  ELSE Rescaled(v, tf, TF_TO_MINUTES[v.prev], TF_TO_MINUTES[tf],
                AggLen(n, TF_TO_MINUTES[tf]))

\* The effect on [candles.length] left out.
ViewportEffectSkipped(v, count, len) == v

\* The effect on [candles.length]: its two updater functions applied to the
\* viewport v, count the viewCount of the render's closure and len the
\* number of displayed bars.
ViewportEffect(v, count, len) ==
  [v EXCEPT !.count = Min2(v.count, Max2(Lit(1), Lit(len))),
            !.start = clamp(v.start, 0, Max2(0, FSub(Lit(len), Min2(count, Lit(len)))))]

\* The effects of the render that follows a handler which left n base bars,
\* the timeframe tf and the viewport v: the timeframe effect, then the
\* viewport effect if the number of displayed bars has changed.
Effects(v, n, tf) ==
  IF AggLen(n, TF_TO_MINUTES[tf]) # Len(candles)
    THEN ViewportEffect(TimeframeEffect(v, n, tf), v.count, AggLen(n, TF_TO_MINUTES[tf]))
    ELSE TimeframeEffect(v, n, tf)

\* The model's 0.01.
Slack == One \div 8

\* "viewStart + viewCount >= candles.length - 0.01".
AtEnd == FAdd(viewStart, viewCount) >= FSub(Lit(Len(candles)), Slack)

\* "setViewStart(Math.max(0, newLen - viewCount))" for n base bars.
ShowEnd(n) == [View EXCEPT !.start = Max2(0, FSub(Lit(AggLen(n, G)), viewCount))]

\* The viewport an addBar, addBars or removeBar that leaves n base bars
\* sets: the right edge stays pinned if the view was at the end.
Pinned(n) == IF AtEnd THEN ShowEnd(n) ELSE View

\* "const step = innerWidth / Math.max(1, viewCount)".
Step == FDiv(Lit(InnerWidth), Max2(Lit(1), viewCount))

\* The model's 1.1 and 0.9, the factors of a zoom step, at the scale of the
\* model's bar counts.
ZoomOutFactor == One + (One \div 2)
ZoomInFactor == One \div 2

\* newCount of applyZoomAt.
ZoomCount(deltaY) ==
  clamp(MathRound(FMul(viewCount, IF deltaY > 0 THEN ZoomOutFactor ELSE ZoomInFactor)),
        Lit(MinCount), Max2(Lit(MinCount), Lit(Len(candles))))

\* newStart of applyZoomAt, for the pointer x pixels right of paddingLeft.
ZoomStart(x, newCount) ==
  clamp(FSub(FAdd(viewStart, clamp(FDiv(Lit(x), Step), 0, viewCount)),
             clamp(FDiv(Lit(x), FDiv(Lit(InnerWidth), newCount)), 0, newCount)),
        0, Max2(0, FSub(Lit(Len(candles)), newCount)))

\* ------------------------------------------------------------- updaters
\* An updater function passed to setBaseCandles by a pointer-move handler,
\* run on the state st = [base, undo, redo, session] with r the value of
\* Math.random(): the session check with pushUndoSnapshot, then the edit.
RunUpdater(u, st, g, r) ==
  [base |-> CASE u.kind = "cell" -> Edit1m(st.base, u.index, u.field, u.value)
              [] u.kind = "group" ->
                   applyEditToGroup(st.base, g, u.index, u.field, u.value, r)
              [] u.kind = "ma" -> ShiftClose(st.base, u.baseEnd, u.delta),
   undo |-> IF st.session THEN st.undo ELSE Append(st.undo, st.base),
   redo |-> IF st.session THEN st.redo ELSE << >>,
   session |-> TRUE]

RECURSIVE RunQueue(_, _, _, _)
\* The queued updaters q run in order, rs[i] the random value of the i-th.
RunQueue(q, st, g, rs) ==
  IF q = << >> THEN st
  ELSE RunQueue(Tail(q), RunUpdater(Head(q), st, g, Head(rs)), g, Tail(rs))

Now == [base |-> baseCandles, undo |-> undoStack, redo |-> redoStack,
        session |-> editSessionRef]

\* setBaseCandles(updater) from a pointer-move handler: React runs the
\* updater at once when the component has no update waiting, and otherwise
\* queues it for the next render.
Dispatch(u, r) ==
  IF ~dirty
    THEN \E st \in {RunUpdater(u, Now, G, r)} :
           /\ baseCandles' = st.base
           /\ undoStack' = st.undo
           /\ redoStack' = st.redo
           /\ editSessionRef' = st.session
           /\ pending' = pending
           /\ dirty' = TRUE
    ELSE /\ pending' = Append(pending, u)
         /\ UNCHANGED <<baseCandles, undoStack, redoStack, editSessionRef, dirty>>

\* A render: the queued updaters run, then the memoised aggregate is
\* recomputed from the new base sequence.
Render ==
  /\ dirty
  /\ \E rs \in [1 .. Len(pending) -> Rand] :
       \E st \in {RunQueue(pending, Now, G, rs)} :
           /\ baseCandles' = st.base
           /\ undoStack' = st.undo
           /\ redoStack' = st.redo
           /\ editSessionRef' = st.session
           /\ candles' = Aggregate(st.base, G)
           /\ track' = IF track.stage = "up"
                         THEN [track EXCEPT !.stage = "done", !.post = st.base]
                         ELSE track
  /\ pending' = << >>
  /\ dirty' = FALSE
  /\ UNCHANGED <<timeframe, dragRef, maDragRef, isDraggingCandle, isDraggingMA,
                 ops, moves, lab, viewStart, viewCount, prevTimeframeRef>>

\* The snapshot every discrete edit pushes, and the record of the edit.
Snapshot(next) ==
  /\ undoStack' = Append(undoStack, baseCandles)
  /\ redoStack' = << >>
  /\ track' = [stage |-> "done", kind |-> "edit", pre |-> baseCandles,
               post |-> next, undoLen |-> Len(undoStack)]

\* "if (!editSessionRef.current) { pushUndoSnapshot(baseCandles);
\*  editSessionRef.current = true; }" of a pointer-down on a handle.
OpenSession ==
  /\ undoStack' = IF editSessionRef THEN undoStack ELSE Append(undoStack, baseCandles)
  /\ redoStack' = IF editSessionRef THEN redoStack ELSE << >>
  /\ editSessionRef' = TRUE
  /\ track' = [stage |-> "drag", kind |-> "gesture", pre |-> baseCandles,
               post |-> << >>, undoLen |-> Len(undoStack)]

\* The edit a handle or editor field of bar index makes.
EditAt(index, field, newPrice, r) ==
  IF timeframe = "1m" THEN Edit1m(baseCandles, index, field, newPrice)
  ELSE applyEditToGroup(baseCandles, G, index, field, newPrice, r)

\* ----------------------------------------------------- candle handles
\* handlePointerDown(index, field): the snapshot of the gesture, then the
\* value under the pointer applied at once; the pointer-down is flushed
\* synchronously, so the aggregate is recomputed.
HandlePointerDown(index, field, v, r) ==
  /\ Idle /\ ops < MaxOps
  /\ index \in Idx(candles)
  /\ \E next \in {EditAt(index, field, yToPrice(v), r)} :
       /\ baseCandles' = next
       /\ candles' = Aggregate(next, G)
  /\ dragRef' = Some([index |-> index, field |-> field])
  /\ OpenSession
  /\ isDraggingCandle' = TRUE
  /\ ops' = ops + 1
  /\ UNCHANGED <<timeframe, maDragRef, isDraggingMA, pending, dirty, moves, lab,
                 viewStart, viewCount, prevTimeframeRef>>

\* onMove of the candle drag effect.
CandleMove(v, r) ==
  /\ isDraggingCandle /\ dragRef # Null /\ moves < MaxMoves
  /\ Dispatch([kind |-> IF timeframe = "1m" THEN "cell" ELSE "group",
               index |-> dragRef[1].index, field |-> dragRef[1].field,
               value |-> yToPrice(v)], r)
  /\ moves' = moves + 1
  /\ UNCHANGED <<timeframe, dragRef, maDragRef, isDraggingCandle, isDraggingMA,
                 candles, ops, track, lab, viewStart, viewCount, prevTimeframeRef>>

\* The stage of the tracked gesture once the pointer is released.
Released ==
  IF track.stage = "drag"
    THEN IF Settled THEN [track EXCEPT !.stage = "done", !.post = baseCandles]
         ELSE [track EXCEPT !.stage = "up"]
    ELSE track

\* onUp of the candle drag effect.
CandleUp ==
  /\ isDraggingCandle
  /\ dragRef' = Null
  /\ editSessionRef' = FALSE
  /\ isDraggingCandle' = FALSE
  /\ track' = Released
  /\ UNCHANGED <<baseCandles, timeframe, undoStack, redoStack, maDragRef,
                 isDraggingMA, candles, pending, dirty, ops, moves, lab,
                 viewStart, viewCount, prevTimeframeRef>>

\* ---------------------------------------------- moving-average handles
\* The series a handle of the given kind is drawn on.
Series(kind, period) ==
  IF kind = "SMA" THEN sma(closeValues(candles), period)
  ELSE ema(closeValues(candles), period)

\* A handle is drawn where the series has a value.
HasHandle(kind, period, i) == i \in Idx(candles) /\ At(Series(kind, period), i) # Null

MAPointerDown(kind, period, i) ==
  /\ Idle /\ ops < MaxOps
  /\ HasHandle(kind, period, i)
  /\ maDragRef' = Some([kind |-> kind, period |-> period, index |-> i])
  /\ isDraggingMA' = TRUE
  /\ OpenSession
  /\ ops' = ops + 1
  /\ UNCHANGED <<baseCandles, timeframe, dragRef, isDraggingCandle, candles,
                 pending, dirty, moves, lab, viewStart, viewCount, prevTimeframeRef>>

\* The close of cs[t], or 0 where there is none: "candles[t]?.close ?? 0".
CloseOr0(cs, t) == IF t \in Idx(cs) THEN At(cs, t).close ELSE 0

RECURSIVE WindowSum(_, _, _, _)
WindowSum(cs, t, index, sum) ==
  IF t > index THEN sum ELSE WindowSum(cs, t + 1, index, FAdd(sum, CloseOr0(cs, t)))

\* The delta the SMA branch of onMove computes from the closure's candles cs.
SmaDelta(cs, period, index, target) ==
  FSub(FMul(Lit(period), target), WindowSum(cs, index - (period - 1), index, 0))

\* "(target - (1 - k) * prevE) / k".
EmaClose(period, target, prevE) ==
  FDiv(FSub(target, FMul(FSub(Lit(1), Smoothing(period)), prevE)), Smoothing(period))

\* "newClose - (candles[index]?.close ?? newClose)".
EmaDeltaOf(cs, index, newClose) ==
  FSub(newClose, IF index \in Idx(cs) THEN At(cs, index).close ELSE newClose)

\* The delta the EMA branch computes, given the previous EMA value prevE.
EmaDelta(cs, period, index, target, prevE) ==
  EmaDeltaOf(cs, index, EmaClose(period, target, prevE))

\* emaVals[index - 1] of the closure's close values.
EmaPrev(cs, period, index) ==
  IF (index - 1) \in Idx(cs) THEN At(ema(closeValues(cs), period), index - 1)
  ELSE Null

\* The EMA branch takes a null previous value for 0.
EmaDeltaSeeded(cs, period, index, target, prevE) ==
  Some(EmaDelta(cs, period, index, target, IF prevE = Null THEN 0 ELSE prevE[1]))

\* The EMA branch: no delta when the previous value is null.
EmaDeltaFrom(cs, period, index, target, prevE) ==
  IF prevE = Null THEN Null ELSE Some(EmaDelta(cs, period, index, target, prevE[1]))

\* The delta onMove passes to its updater, or Null where it returns early:
\* "if (j < 0) return" of the SMA branch, "if (prevE == null) return" of the
\* EMA branch.
MaDelta(cs, kind, period, index, target) ==
  IF kind = "SMA"
    THEN IF index - (period - 1) < 0 THEN Null
         ELSE Some(SmaDelta(cs, period, index, target))
    ELSE EmaDeltaFrom(cs, period, index, target, EmaPrev(cs, period, index))

\* The first base bar of the group of the point.
BaseEndFirst(n, g, index) == Min2(n - 1, index * g)

\* The base bar a moving-average point edits, for n base bars.
BaseEnd(n, g, index) == Min2(n - 1, index * g + (g - 1))

\* The updater applied to base, or base itself where onMove returns early.
MaShift(base, baseEnd, delta) ==
  IF baseEnd < 0 \/ baseEnd >= Len(base) \/ delta = Null THEN base
  ELSE ShiftClose(base, baseEnd, delta[1])

\* onMove of the moving-average drag effect as a function: the base sequence
\* that results when the closure holds the aggregate cs and the updater runs
\* on base.
MaEdit(base, cs, g, kind, period, index, target) ==
  MaShift(base, BaseEnd(Len(base), g, index), MaDelta(cs, kind, period, index, target))

\* onMove of the moving-average drag effect; it returns early, changing
\* nothing, when the point has no window or no previous value.
MAMove(v, r) ==
  /\ isDraggingMA /\ maDragRef # Null /\ moves < MaxMoves
  /\ \E d \in {maDragRef[1]}, baseEnd \in {BaseEnd(Len(baseCandles), G, maDragRef[1].index)} :
       /\ ~(baseEnd < 0 \/ baseEnd >= Len(baseCandles))
       /\ \E delta \in {MaDelta(candles, d.kind, d.period, d.index, yToPrice(v))} :
            /\ delta # Null
            /\ Dispatch([kind |-> "ma", baseEnd |-> baseEnd, delta |-> delta[1]], r)
  /\ moves' = moves + 1
  /\ UNCHANGED <<timeframe, dragRef, maDragRef, isDraggingCandle, isDraggingMA,
                 candles, ops, track, lab, viewStart, viewCount, prevTimeframeRef>>

\* onUp of the moving-average drag effect.
MAUp ==
  /\ isDraggingMA
  /\ maDragRef' = Null
  /\ editSessionRef' = FALSE
  /\ isDraggingMA' = FALSE
  /\ track' = Released
  /\ UNCHANGED <<baseCandles, timeframe, undoStack, redoStack, dragRef,
                 isDraggingCandle, candles, pending, dirty, ops, moves, lab,
                 viewStart, viewCount, prevTimeframeRef>>

\* ------------------------------------------------------ numeric editor
\* onChange of a field of the selected candle: a snapshot, then the edit.
NumericEdit(index, field, v, r) ==
  /\ Idle /\ ops < MaxOps
  /\ index \in Idx(candles)
  /\ \E next \in {EditAt(index, field, v, r)} :
       /\ baseCandles' = next
       /\ candles' = Aggregate(next, G)
       /\ Snapshot(next)
  /\ ops' = ops + 1
  /\ UNCHANGED <<timeframe, editSessionRef, dragRef, maDragRef, isDraggingCandle,
                 isDraggingMA, pending, dirty, moves, lab,
                 viewStart, viewCount, prevTimeframeRef>>

\* ----------------------------------------------------------- undo, redo
\* The base sequence and the two stacks, as undo and redo read them.
Stacks == [base |-> baseCandles, undo |-> undoStack, redo |-> redoStack]

\* The undo that takes the snapshot back without saving the current base
\* sequence for redo.
undoUnsaved(st) ==
  IF Len(st.undo) = 0 THEN st
  ELSE [base |-> st.undo[Len(st.undo)],
        undo |-> SubSeq(st.undo, 1, Len(st.undo) - 1),
        redo |-> st.redo]

\* "if (u.length === 0) return u", else the last snapshot becomes the base
\* sequence and the base sequence goes on the redo stack.
undo(st) ==
  IF Len(st.undo) = 0 THEN st
  ELSE [base |-> st.undo[Len(st.undo)],
        undo |-> SubSeq(st.undo, 1, Len(st.undo) - 1),
        redo |-> Append(st.redo, st.base)]

redo(st) ==
  IF Len(st.redo) = 0 THEN st
  ELSE [base |-> st.redo[Len(st.redo)],
        undo |-> Append(st.undo, st.base),
        redo |-> SubSeq(st.redo, 1, Len(st.redo) - 1)]

\* The Undo button is disabled while the undo stack is empty, and the Redo
\* button while the redo stack is.
Undo ==
  /\ Idle
  /\ Len(undoStack) > 0
  /\ \E st \in {undo(Stacks)} :
       /\ redoStack' = st.redo
       /\ baseCandles' = st.base
       /\ undoStack' = st.undo
       /\ candles' = Aggregate(st.base, G)
       /\ SetView(Effects(View, Len(st.base), timeframe))
  /\ track' = IF track.stage = "done" THEN [track EXCEPT !.stage = "undone"] ELSE NoTrack
  /\ UNCHANGED <<timeframe, editSessionRef, dragRef, maDragRef, isDraggingCandle,
                 isDraggingMA, pending, dirty, ops, moves, lab>>

Redo ==
  /\ Idle
  /\ Len(redoStack) > 0
  /\ \E st \in {redo(Stacks)} :
       /\ undoStack' = st.undo
       /\ baseCandles' = st.base
       /\ redoStack' = st.redo
       /\ candles' = Aggregate(st.base, G)
       /\ SetView(Effects(View, Len(st.base), timeframe))
  /\ track' = IF track.stage = "undone" THEN [track EXCEPT !.stage = "redone"] ELSE NoTrack
  /\ UNCHANGED <<timeframe, editSessionRef, dragRef, maDragRef, isDraggingCandle,
                 isDraggingMA, pending, dirty, ops, moves, lab>>

\* ------------------------------------------------- add, remove, reset
\* The generated bars appended with the numbers genGBMBars gave them.
RenumberSkipped(gen, offset) == gen

\* The bars genGBMBars returns, renumbered from offset.
Renumber(gen, offset) == [i \in 1 .. Len(gen) |-> [gen[i] EXCEPT !.time = offset + i - 1]]

\* "prev[prev.length - 1] ?? { close: 100 }", its close.
LastClose(prev) == IF Len(prev) > 0 THEN prev[Len(prev)].close ELSE Lit(StartPrice)

\* The base sequence with one generated bar too few appended.
AppendedLess(prev, total, steps) ==
  prev \o Renumber(genGBMBars(0, total - 1, LastClose(prev), steps), Len(prev))

\* The base sequence with total generated bars appended.
Appended(prev, total, steps) ==
  prev \o Renumber(genGBMBars(0, total, LastClose(prev), steps), Len(prev))

\* The updater of addBar and addBars, for total new base bars.
Grow(total) ==
  /\ Len(baseCandles) + total <= MaxBars
  /\ \E steps \in StepStreams(total) :
       \E next \in {Appended(baseCandles, total, steps)} :
         /\ baseCandles' = next
         /\ candles' = Aggregate(next, G)
         /\ Snapshot(next)
         /\ SetView(Effects(Pinned(Len(next)), Len(next), timeframe))

AddBar ==
  /\ Idle /\ ops < MaxOps
  /\ Grow(G)
  /\ ops' = ops + 1
  /\ UNCHANGED <<timeframe, editSessionRef, dragRef, maDragRef, isDraggingCandle,
                 isDraggingMA, pending, dirty, moves, lab>>

AddBars(count) ==
  /\ Idle /\ ops < MaxOps
  /\ count > 0
  /\ Grow(Max2(0, count) * G)
  /\ ops' = ops + 1
  /\ UNCHANGED <<timeframe, editSessionRef, dragRef, maDragRef, isDraggingCandle,
                 isDraggingMA, pending, dirty, moves, lab>>

RemoveBar ==
  /\ Idle /\ ops < MaxOps
  /\ Len(baseCandles) > 0
  /\ \E next \in {SubSeq(baseCandles, 1, Len(baseCandles) - Min2(Len(baseCandles), G))} :
       /\ baseCandles' = next
       /\ candles' = Aggregate(next, G)
       /\ Snapshot(next)
       /\ SetView(Effects(Pinned(Len(next)), Len(next), timeframe))
  /\ ops' = ops + 1
  /\ UNCHANGED <<timeframe, editSessionRef, dragRef, maDragRef, isDraggingCandle,
                 isDraggingMA, pending, dirty, moves, lab>>

ResetData ==
  /\ Idle /\ ops < MaxOps
  /\ \E data \in {genGBMBars(0, InitBars * G, Lit(StartPrice), SeedStream(InitBars * G))} :
       /\ baseCandles' = data
       /\ candles' = Aggregate(data, G)
       /\ SetView(Effects(ShowEnd(Len(data)), Len(data), timeframe))
  /\ undoStack' = << >>
  /\ redoStack' = << >>
  /\ track' = NoTrack
  /\ ops' = ops + 1
  /\ UNCHANGED <<timeframe, editSessionRef, dragRef, maDragRef, isDraggingCandle,
                 isDraggingMA, pending, dirty, moves, lab>>

\* A timeframe button.
SetTimeframe(tf) ==
  /\ Idle /\ ops < MaxOps
  /\ tf # timeframe
  /\ timeframe' = tf
  /\ candles' = Aggregate(baseCandles, TF_TO_MINUTES[tf])
  /\ SetView(Effects(View, Len(baseCandles), tf))
  /\ track' = NoTrack
  /\ ops' = ops + 1
  /\ UNCHANGED <<baseCandles, undoStack, redoStack, editSessionRef, dragRef,
                 maDragRef, isDraggingCandle, isDraggingMA, pending, dirty, moves, lab>>

\* ------------------------------------------------------------ zoom, pan
\* applyZoomAt(clientX, deltaY) of the wheel and of the zoom buttons, the
\* pointer x pixels right of paddingLeft.
ApplyZoomAt(x, deltaY) ==
  /\ Idle /\ ops < MaxOps
  /\ viewCount' = ZoomCount(deltaY)
  /\ viewStart' = ZoomStart(x, ZoomCount(deltaY))
  /\ ops' = ops + 1
  /\ UNCHANGED <<baseCandles, timeframe, undoStack, redoStack, editSessionRef, dragRef,
                 maDragRef, isDraggingCandle, isDraggingMA, candles, pending, dirty,
                 moves, track, lab, prevTimeframeRef>>

\* onPanMove of an active pan, the pointer dx pixels right of where the move
\* before it left it.
OnPanMove(dx) ==
  /\ Idle /\ ops < MaxOps
  /\ viewStart' = clamp(FSub(viewStart, FDiv(Lit(dx), Step)), 0,
                        Max2(0, FSub(Lit(Len(candles)), viewCount)))
  /\ ops' = ops + 1
  /\ UNCHANGED <<baseCandles, timeframe, undoStack, redoStack, editSessionRef, dragRef,
                 maDragRef, isDraggingCandle, isDraggingMA, candles, pending, dirty,
                 moves, track, lab, viewCount, prevTimeframeRef>>

Next ==
  \/ \E i \in 0 .. (MaxBars - 1), f \in Fields, v \in PointerPrices, r \in Rand :
       HandlePointerDown(i, f, v, r)
  \/ \E v \in PointerPrices, r \in Rand : CandleMove(v, r)
  \/ CandleUp
  \/ \E k \in {"SMA", "EMA"}, p \in Periods, i \in 0 .. (MaxBars - 1) : MAPointerDown(k, p, i)
  \/ \E v \in PointerPrices, r \in Rand : MAMove(v, r)
  \/ MAUp
  \/ \E i \in 0 .. (MaxBars - 1), f \in Fields, v \in TypedValues, r \in Rand :
       NumericEdit(i, f, v, r)
  \/ Undo
  \/ Redo
  \/ AddBar
  \/ \E c \in 1 .. MaxBatch : AddBars(c)
  \/ RemoveBar
  \/ ResetData
  \/ \E tf \in Timeframes : SetTimeframe(tf)
  \/ \E x \in ZoomXs, deltaY \in {-1, 1} : ApplyZoomAt(x, deltaY)
  \/ \E dx \in PanMoves : OnPanMove(dx)
  \/ Render

Spec == Init /\ [][Next]_vars

\* ------------------------------------------ direct calls of the functions
\* Base sequences a direct call is given: bars that satisfy the OHLC
\* invariant, each opening at the close of the bar before it, as every
\* sequence the handlers build does.  Opens and closes come from LabChain; a
\* bar is flat (no wick), tall (its high at LabTall) or deep (its low at
\* LabDeep); the first bar opens at LabOpen.
LabChain == {One + 1, 2 * One}
LabOpen == 2 * One
LabTall == 6 * One
LabDeep == One \div 2
LabShapes == {"flat", "tall", "deep"}
\* Targets of an edit: below every body, between LabDeep and the bodies, on a
\* body, between the bodies and LabTall, and on LabTall.
LabTargets == {LabDeep, LabDeep + 2, One + 1, 5 * One + 2, LabTall}
Granularities == {1, GroupA, GroupB}

LabBar(i, o, c, s) ==
  Candle(i, o, IF s = "tall" THEN LabTall ELSE Max2(o, c),
         IF s = "deep" THEN LabDeep ELSE Min2(o, c), c)

RECURSIVE LabSeqs(_, _, _)
\* The sequences of bars i .. n-1 whose first bar opens at o.
LabSeqs(i, n, o) ==
  IF i >= n THEN {<< >>}
  ELSE UNION {{<<LabBar(i, o, c, s)>> \o rest : rest \in LabSeqs(i + 1, n, c)} :
                c \in LabChain, s \in LabShapes}

LabBases == UNION {LabSeqs(0, n, LabOpen) : n \in 0 .. LabBars}

\* Base sequences a moving-average point edit is given: flat bars whose
\* closes come from LabCloses, values with few and with many significant
\* bits, as the closes earlier point edits leave behind.
LabCloses == {One + 1, 2 * One, 3 * One + 3}

RECURSIVE LabFlats(_, _, _)
LabFlats(i, n, o) ==
  IF i >= n THEN {<< >>}
  ELSE UNION {{<<LabBar(i, o, c, "flat")>> \o rest : rest \in LabFlats(i + 1, n, c)} :
                c \in LabCloses}

LabFlatBases == UNION {LabFlats(0, n, LabOpen) : n \in 1 .. LabBars}

InitPure ==
  /\ baseCandles = genGBMBars(0, InitBars, Lit(StartPrice), SeedStream(InitBars))
  /\ Mounted
  /\ lab \in {[NoLab EXCEPT !.fn = "input", !.base = b, !.g = g] :
                b \in LabBases, g \in Granularities}
           \cup {[NoLab EXCEPT !.fn = "points", !.base = b, !.g = g] :
                   b \in LabFlatBases, g \in Granularities}

\* applyEditToGroup(base, i, f, v) at granularity g > 1; the group index may
\* be negative or past the last group.
LabEdit(i, f, v, r) ==
  /\ (f \in {"open", "close"} => r = 0)
  /\ lab' = [lab EXCEPT !.fn = "edit", !.index = i, !.field = f, !.value = v, !.r = r,
                        !.out = applyEditToGroup(lab.base, lab.g, i, f, v, r)]
  /\ UNCHANGED <<baseCandles, timeframe, undoStack, redoStack, editSessionRef, dragRef,
                 maDragRef, isDraggingCandle, isDraggingMA, candles, pending, dirty,
                 ops, moves, track, viewStart, viewCount, prevTimeframeRef>>

\* The aggregation of the candles memo, at granularity g.
LabAggregate ==
  /\ lab.fn = "input"
  /\ lab' = [lab EXCEPT !.fn = "aggregate", !.out = Aggregate(lab.base, lab.g)]
  /\ UNCHANGED <<baseCandles, timeframe, undoStack, redoStack, editSessionRef, dragRef,
                 maDragRef, isDraggingCandle, isDraggingMA, candles, pending, dirty,
                 ops, moves, track, viewStart, viewCount, prevTimeframeRef>>

\* onMove of the moving-average drag effect for the point (kind, period, i)
\* and the pointer price v, when the displayed bars are the aggregation of
\* the base sequence.
LabMA(kind, period, i, v) ==
  /\ lab.fn = "points"
  /\ i \in Idx(Aggregate(lab.base, lab.g))
  /\ lab' = [lab EXCEPT !.fn = "ma", !.kind = kind, !.period = period, !.index = i,
                        !.value = yToPrice(v),
                        !.out = MaEdit(lab.base, Aggregate(lab.base, lab.g), lab.g,
                                       kind, period, i, yToPrice(v))]
  /\ UNCHANGED <<baseCandles, timeframe, undoStack, redoStack, editSessionRef, dragRef,
                 maDragRef, isDraggingCandle, isDraggingMA, candles, pending, dirty,
                 ops, moves, track, viewStart, viewCount, prevTimeframeRef>>

MACall ==
  \E k \in {"SMA", "EMA"}, p \in Periods, i \in 0 .. (LabBars - 1), v \in LabTargets :
    LabMA(k, p, i, v)

\* A direct call is made once, on the input the initial state holds.
EditCall ==
  /\ lab.fn = "input" /\ lab.g > 1
  /\ \E i \in -1 .. (LabBars \div GroupA), f \in Fields, v \in LabTargets, r \in Rand :
       LabEdit(i, f, v, r)

\* The 1m branch of the numeric editor and of the candle drag, called once
\* on a base sequence displayed at 1m.
LabEdit1m(i, f, v) ==
  /\ lab' = [lab EXCEPT !.fn = "edit1m", !.index = i, !.field = f, !.value = v,
                        !.out = Edit1m(lab.base, i, f, v)]
  /\ UNCHANGED <<baseCandles, timeframe, undoStack, redoStack, editSessionRef, dragRef,
                 maDragRef, isDraggingCandle, isDraggingMA, candles, pending, dirty,
                 ops, moves, track, viewStart, viewCount, prevTimeframeRef>>

Edit1mCall ==
  /\ lab.fn = "input" /\ lab.g = 1
  /\ \E i \in Idx(lab.base), f \in Fields, v \in LabTargets : LabEdit1m(i, f, v)

NextPure == EditCall \/ LabAggregate \/ MACall \/ Edit1mCall

SpecPure == InitPure /\ [][NextPure]_vars

\* ------------------------------------------ direct calls of the indicators
\* Price sequences an indicator is given: every sequence of at most IndLen
\* prices of IndPrices (1, 2, and two prices with more significant bits),
\* and the sequence 1, 2, 3, 4, 5.
IndPrices == {One, One + 1, 2 * One, 3 * One + 3}
IndPeriods == -1 .. 3
MacdPeriods == 0 .. 3
IndExample == <<Lit(1), Lit(2), Lit(3), Lit(4), Lit(5)>>
IndValues == UNION {[1 .. n -> IndPrices] : n \in 0 .. IndLen} \cup {IndExample}

InitInd ==
  /\ baseCandles = genGBMBars(0, InitBars, Lit(StartPrice), SeedStream(InitBars))
  /\ Mounted
  /\ lab \in {[NoLab EXCEPT !.fn = "values", !.values = vs, !.period = p] :
                vs \in IndValues, p \in IndPeriods}

\* The indicator fn called on the values and the period of the initial state.
LabIndicator(fn, out) ==
  /\ lab.fn = "values"
  /\ lab' = [lab EXCEPT !.fn = fn, !.out = out]
  /\ UNCHANGED <<baseCandles, timeframe, undoStack, redoStack, editSessionRef, dragRef,
                 maDragRef, isDraggingCandle, isDraggingMA, candles, pending, dirty,
                 ops, moves, track, viewStart, viewCount, prevTimeframeRef>>

SmaCall == LabIndicator("sma", sma(lab.values, lab.period))
EmaCall == LabIndicator("ema", ema(lab.values, lab.period))
RsiCall == LabIndicator("rsi", rsi(lab.values, lab.period))

\* macd called on the values of the initial state with the given periods.
LabMacd(fast, slow, signalPeriod) ==
  /\ lab.fn = "values"
  /\ lab' = [lab EXCEPT !.fn = "macd", !.period = <<fast, slow, signalPeriod>>,
                        !.out = macd(lab.values, fast, slow, signalPeriod)]
  /\ UNCHANGED <<baseCandles, timeframe, undoStack, redoStack, editSessionRef, dragRef,
                 maDragRef, isDraggingCandle, isDraggingMA, candles, pending, dirty,
                 ops, moves, track, viewStart, viewCount, prevTimeframeRef>>

MacdCall == \E fast \in MacdPeriods, slow \in MacdPeriods, signalPeriod \in MacdPeriods :
              LabMacd(fast, slow, signalPeriod)

NextInd == SmaCall \/ EmaCall \/ RsiCall \/ MacdCall

SpecInd == InitInd /\ [][NextInd]_vars

\* ------------------------------------------------ calls of the generator
MaxDraws == 3
GenBars == 2
GenSeeds == {1, 2, -1}
GenStarts == {Lit(StartPrice), One + 1, 3 * One + 3}

\* Two instances of mulberry32(seed), and two runs of genGBMBars with a
\* further instance each: lab.out holds the variable a of each instance, the
\* values each has returned and the bars of each run.
InitGen ==
  /\ baseCandles = genGBMBars(0, InitBars, Lit(StartPrice), SeedStream(InitBars))
  /\ Mounted
  /\ lab \in {[NoLab EXCEPT !.fn = "rng", !.index = seed, !.value = start,
                            !.out = [a |-> <<mulberry32(seed), mulberry32(seed)>>,
                                     drawn |-> <<<< >>, << >>>>,
                                     runs |-> <<Null, Null>>]] :
                seed \in GenSeeds, start \in GenStarts}

\* A call of instance k.
RngCall(k) ==
  /\ lab.fn = "rng"
  /\ Len(lab.out.drawn[k]) < MaxDraws
  /\ lab' = [lab EXCEPT !.out.a = RngStep(lab.out.a, k),
                        !.out.drawn[k] = Append(@, RngValue(lab.out.a, k))]
  /\ UNCHANGED <<baseCandles, timeframe, undoStack, redoStack, editSessionRef, dragRef,
                 maDragRef, isDraggingCandle, isDraggingMA, candles, pending, dirty,
                 ops, moves, track, viewStart, viewCount, prevTimeframeRef>>

\* Run k: genGBMBars(n, start, mu, sigma, mulberry32(seed)).
GenCall(k, n) ==
  /\ lab.fn = "rng"
  /\ lab.out.runs[k] = Null
  /\ lab' = [lab EXCEPT !.out.runs[k] =
               Some([n |-> n,
                     bars |-> GenRun(Append(lab.out.a, mulberry32(lab.index)),
                                     Len(lab.out.a) + 1, n, lab.value)])]
  /\ UNCHANGED <<baseCandles, timeframe, undoStack, redoStack, editSessionRef, dragRef,
                 maDragRef, isDraggingCandle, isDraggingMA, candles, pending, dirty,
                 ops, moves, track, viewStart, viewCount, prevTimeframeRef>>

NextGen ==
  \/ \E k \in 1 .. 2 : RngCall(k)
  \/ \E k \in 1 .. 2, n \in 0 .. GenBars : GenCall(k, n)

SpecGen == InitGen /\ [][NextGen]_vars

\* ---------------------------------------------------------- properties
SetMax(S) == CHOOSE x \in S : \A y \in S : y <= x
SetMin(S) == CHOOSE x \in S : \A y \in S : x <= y

\* low <= min(open, close) <= max(open, close) <= high.
Ohlc(c) == c.low <= c.open /\ c.low <= c.close /\ c.open <= c.high /\ c.close <= c.high

\* The base indices of group gi at granularity g.
GroupIdx(g, gi) == (gi * g) .. (gi * g + g - 1)

\* The direct call edited a group that is complete, so that the aggregation
\* has a bar for it; that bar after the edit, and the group's values before.
LabComplete ==
  lab.fn = "edit" /\ lab.index >= 0 /\ lab.index < Len(lab.base) \div lab.g
Reagg == At(Aggregate(lab.out, lab.g), lab.index)
LabGroup == GroupIdx(lab.g, lab.index)
GroupFloor == SetMax({IF At(lab.base, k).open >= At(lab.base, k).close
                        THEN At(lab.base, k).open ELSE At(lab.base, k).close : k \in LabGroup})
GroupCeil == SetMin({IF At(lab.base, k).open <= At(lab.base, k).close
                       THEN At(lab.base, k).open ELSE At(lab.base, k).close : k \in LabGroup})
GroupHigh == SetMax({At(lab.base, k).high : k \in LabGroup})
GroupLow == SetMin({At(lab.base, k).low : k \in LabGroup})

\* C1: in every reachable state every base bar satisfies
\* low <= min(open, close) <= max(open, close) <= high.
C1_OhlcInvariant == \A i \in 1 .. Len(baseCandles) : Ohlc(baseCandles[i])

\* A group edit at a coarser timeframe has changed the base sequence.
C1_Witness ==
  /\ track.stage = "done" /\ track.kind = "edit"
  /\ timeframe # "1m"
  /\ Len(track.post) = Len(track.pre) /\ track.post # track.pre
  /\ baseCandles = track.post

\* C2: after an aggregate open (close) edit of a complete group with target
\* T, the re-aggregated open (close) of the group equals T exactly.
C2_OpenCloseRoundTrip ==
  LabComplete =>
    /\ lab.field = "open" => Reagg.open = lab.value
    /\ lab.field = "close" => Reagg.close = lab.value

\* C3: after an aggregate high edit with target T >= floor, the
\* re-aggregated high of the group equals T, whether the edit raises or
\* lowers and whichever bar the random tie-break picks.
C3_HighRoundTrip ==
  (LabComplete /\ lab.field = "high" /\ lab.value >= GroupFloor) => Reagg.high = lab.value

\* A lowering high edit between the floor and the aggregate high, in a group
\* where two bars are at the aggregate high, with the last random value.
C3_Witness ==
  /\ LabComplete /\ lab.field = "high"
  /\ lab.value >= GroupFloor /\ lab.value < GroupHigh
  /\ Cardinality({k \in LabGroup : At(lab.base, k).high = GroupHigh}) >= 2
  /\ lab.r = RandDenom - 1
  /\ Reagg.high = lab.value

\* C4: after an aggregate low edit with target T <= ceiling, the
\* re-aggregated low of the group equals T, whether the edit lowers or raises
\* and whichever bar the random tie-break picks.
C4_LowRoundTrip ==
  (LabComplete /\ lab.field = "low" /\ lab.value <= GroupCeil) => Reagg.low = lab.value

\* A raising low edit between the aggregate low and the ceiling, in a group
\* where two bars are at the aggregate low, with the last random value.
C4_Witness ==
  /\ LabComplete /\ lab.field = "low"
  /\ lab.value <= GroupCeil /\ lab.value > GroupLow
  /\ Cardinality({k \in LabGroup : At(lab.base, k).low = GroupLow}) >= 2
  /\ lab.r = RandDenom - 1
  /\ Reagg.low = lab.value

\* No bar of the edited sequence has its high below its body or its low
\* above it.
BodiesKept ==
  \A k \in 1 .. Len(lab.out) :
    /\ lab.out[k].high >= lab.out[k].open /\ lab.out[k].high >= lab.out[k].close
    /\ lab.out[k].low <= lab.out[k].open /\ lab.out[k].low <= lab.out[k].close

\* C5: an infeasible high edit (T < floor) leaves the re-aggregated high at
\* the floor, an infeasible low edit (T > ceiling) leaves the re-aggregated
\* low at the ceiling, and no bar ends with its high below its body max or
\* its low above its body min.
C5_InfeasibleClamps ==
  LabComplete =>
    /\ (lab.field = "high" /\ lab.value < GroupFloor) =>
         (Reagg.high = GroupFloor /\ BodiesKept)
    /\ (lab.field = "low" /\ lab.value > GroupCeil) =>
         (Reagg.low = GroupCeil /\ BodiesKept)

\* An infeasible low edit of a group whose aggregate low was below the
\* ceiling: the lows were raised to the ceiling.
C5_Witness ==
  /\ LabComplete /\ lab.field = "low"
  /\ lab.value > GroupCeil /\ GroupLow < GroupCeil
  /\ Reagg.low = GroupCeil

\* C6: an undo right after a snapshot-pushing operation from B to B' makes
\* the base sequence B again, and a redo right after that undo makes it B'.
C6_UndoRedoRestores ==
  /\ track.stage = "undone" => baseCandles = track.pre
  /\ track.stage = "redone" => baseCandles = track.post

\* C7: one drag gesture grows the undo stack by exactly one entry, the base
\* sequence before the pointer-down, and leaves the redo stack empty.
C7_OneSnapshotPerGesture ==
  (track.kind = "gesture" /\ track.stage = "done") =>
    /\ Len(undoStack) = track.undoLen + 1
    /\ undoStack[Len(undoStack)] = track.pre
    /\ redoStack = << >>

\* C8: at g > 1 each aggregate bar has the open of its first base bar, the
\* close of its last, the maximum of its highs and the minimum of its lows.
C8_AggregateFields ==
  (lab.fn = "aggregate" /\ lab.g > 1) =>
    \A gi \in 0 .. ((Len(lab.base) \div lab.g) - 1) :
      /\ gi < Len(lab.out)
      /\ At(lab.out, gi).open = At(lab.base, gi * lab.g).open
      /\ At(lab.out, gi).close = At(lab.base, gi * lab.g + lab.g - 1).close
      /\ At(lab.out, gi).high = SetMax({At(lab.base, k).high : k \in GroupIdx(lab.g, gi)})
      /\ At(lab.out, gi).low = SetMin({At(lab.base, k).low : k \in GroupIdx(lab.g, gi)})

\* An aggregation whose first bar has its high and its low away from the
\* first base bar of the group.
C8_Witness ==
  /\ lab.fn = "aggregate" /\ lab.g = GroupB /\ Len(lab.out) >= 1
  /\ At(lab.out, 0).high > At(lab.base, 0).high
  /\ At(lab.out, 0).low < At(lab.base, 0).low

\* C9: the aggregated sequence has exactly floor(N / g) bars, and it is the
\* aggregation of the base sequence without its trailing incomplete group.
C9_FloorGroups ==
  (lab.fn = "aggregate" /\ lab.g > 1) =>
    /\ Len(lab.out) = Len(lab.base) \div lab.g
    /\ lab.out = Aggregate(SubSeq(lab.base, 1, (Len(lab.base) \div lab.g) * lab.g), lab.g)

\* An aggregation of a sequence with complete groups and a trailing
\* incomplete one.
C9_Witness ==
  /\ lab.fn = "aggregate" /\ lab.g > 1
  /\ Len(lab.base) > lab.g /\ Len(lab.base) % lab.g # 0
  /\ Len(lab.out) >= 1

\* C10: aggregation at granularity 1 returns the base sequence bar for bar.
C10_IdentityAtOne ==
  (lab.fn = "aggregate" /\ lab.g = 1) =>
    /\ Len(lab.out) = Len(lab.base)
    /\ \A i \in 1 .. Len(lab.base) :
         /\ lab.out[i].open = lab.base[i].open
         /\ lab.out[i].high = lab.base[i].high
         /\ lab.out[i].low = lab.base[i].low
         /\ lab.out[i].close = lab.base[i].close

\* An aggregation at granularity 1 of a sequence of the greatest length.
C10_Witness == lab.fn = "aggregate" /\ lab.g = 1 /\ Len(lab.base) = LabBars

\* C11: whenever every base bar satisfies the OHLC ordering, so does every
\* bar of the aggregation at every granularity, and every displayed bar.
C11_AggregateOhlc ==
  (\A i \in 1 .. Len(baseCandles) : Ohlc(baseCandles[i])) =>
    /\ \A tf \in Timeframes :
         \A k \in Idx(Aggregate(baseCandles, TF_TO_MINUTES[tf])) :
           Ohlc(At(Aggregate(baseCandles, TF_TO_MINUTES[tf]), k))
    /\ \A k \in Idx(candles) : Ohlc(At(candles, k))

\* A coarser timeframe is displayed, and the first displayed bar has its high
\* above and its low below those of the first base bar of its group.
C11_Witness ==
  /\ timeframe # "1m" /\ Len(candles) >= 1
  /\ candles = Aggregate(baseCandles, G)
  /\ At(candles, 0).high > At(baseCandles, 0).high
  /\ At(candles, 0).low < At(baseCandles, 0).low

\* C12: a group edit whose group index is not an index of the aggregated
\* sequence (negative, or at least floor(N / g)) returns the base sequence it
\* was given, for every field and target.
C12_OutOfRangeNoOp ==
  (lab.fn = "edit" /\ (lab.index < 0 \/ lab.index >= Len(lab.base) \div lab.g)) =>
    lab.out = lab.base

\* The moving-average series recomputed from the edited base sequence.
LabSeries ==
  IF lab.kind = "SMA" THEN sma(closeValues(Aggregate(lab.out, lab.g)), lab.period)
  ELSE ema(closeValues(Aggregate(lab.out, lab.g)), lab.period)

\* C13: an exponential-average point edit at a display index i <= p - 1,
\* where ema[i - 1] is undefined, leaves the base sequence unchanged.
C13_EmaNoPrevNoOp ==
  (lab.fn = "ma" /\ lab.kind = "EMA" /\ lab.index <= lab.period - 1) =>
    lab.out = lab.base

\* An edit of the seed point of a period-2 exponential average at a coarser
\* granularity, with a target away from the point's value.
C13_Witness ==
  /\ lab.fn = "ma" /\ lab.kind = "EMA" /\ lab.period = 2 /\ lab.index = 1
  /\ lab.g > 1
  /\ At(LabSeries, 1) # Null /\ At(LabSeries, 1) # Some(lab.value)
  /\ lab.out = lab.base

\* C14: after a simple-average point edit at display index i >= p - 1 with
\* target T, the simple average recomputed from the re-aggregated base
\* sequence has sma[i] = T.
C14_SmaRoundTrip ==
  (lab.fn = "ma" /\ lab.kind = "SMA" /\ lab.index >= lab.period - 1) =>
    At(LabSeries, lab.index) = Some(lab.value)

\* C15: after an exponential-average point edit at display index i with
\* ema[i - 1] defined and target T, the exponential average recomputed from
\* the re-aggregated base sequence has ema[i] = T.
C15_EmaRoundTrip ==
  (lab.fn = "ma" /\ lab.kind = "EMA" /\ lab.index > lab.period - 1) =>
    At(LabSeries, lab.index) = Some(lab.value)

\* The first and the last base index of the group a direct call edited.
LabStart == lab.index * lab.g
LabEnd == Min2(Len(lab.base) - 1, LabStart + lab.g - 1)

\* C16: after an aggregate open edit of a group that starts at start > 0,
\* base[start-1].close = base[start].open; after an aggregate close edit of a
\* group that ends at end < N-1, base[end+1].open = base[end].close; and the
\* repaired neighbour satisfies the OHLC ordering.
C16_ContinuityRepair ==
  (lab.fn = "edit" /\ lab.index >= 0 /\ LabStart < Len(lab.base)) =>
    /\ (lab.field = "open" /\ LabStart > 0) =>
         /\ At(lab.out, LabStart - 1).close = At(lab.out, LabStart).open
         /\ Ohlc(At(lab.out, LabStart - 1))
    /\ (lab.field = "close" /\ LabEnd < Len(lab.base) - 1) =>
         /\ At(lab.out, LabEnd + 1).open = At(lab.out, LabEnd).close
         /\ Ohlc(At(lab.out, LabEnd + 1))

\* An aggregate open edit that moved the open of a group with a neighbour
\* before it, whose close followed and whose high was widened.
C16_Witness ==
  /\ lab.fn = "edit" /\ lab.field = "open" /\ lab.index >= 1
  /\ LabStart < Len(lab.base)
  /\ At(lab.out, LabStart).open # At(lab.base, LabStart).open
  /\ At(lab.out, LabStart - 1).close = At(lab.out, LabStart).open
  /\ At(lab.out, LabStart - 1).high > At(lab.base, LabStart - 1).high

\* The sum of values[from .. to] as a real number, and their mean rounded to
\* a number once.
RECURSIVE ExactSum(_, _, _)
ExactSum(values, from, to) ==
  IF from > to THEN 0 ELSE At(values, from) + ExactSum(values, from + 1, to)
Mean(values, from, to) == RoundRatio(ExactSum(values, from, to), to - from + 1)

AllNull(out) == \A i \in 1 .. Len(out) : out[i] = Null

\* The values are non-negative integers whose sum stays within the
\* precision, so that every running sum and difference of them is exact.
SumsExact(values) ==
  /\ \A i \in 1 .. Len(values) : values[i] >= 0 /\ values[i] % One = 0
  /\ ExactSum(values, 0, Len(values) - 1) < Pow2(Precision) * One

\* C17 as stated: sma(values, p) has the length of values; for p >= 1
\* position i is undefined for i < p - 1 and is the mean of
\* values[i-p+1 .. i] for i >= p - 1; for p <= 0 every position is undefined.
C17_SmaIsMean ==
  lab.fn = "sma" =>
    /\ Len(lab.out) = Len(lab.values)
    /\ lab.period <= 0 => AllNull(lab.out)
    /\ lab.period >= 1 =>
         \A i \in Idx(lab.values) :
           At(lab.out, i) = IF i < lab.period - 1 THEN Null
                            ELSE Some(Mean(lab.values, i - lab.period + 1, i))

\* C17, amended: the length, the undefined positions and the case p <= 0 are
\* as stated, and position i >= p - 1 is the mean of values[i-p+1 .. i]
\* whenever the running additions and subtractions are exact.
C17_SmaIsMeanWhenExact ==
  lab.fn = "sma" =>
    /\ Len(lab.out) = Len(lab.values)
    /\ lab.period <= 0 => AllNull(lab.out)
    /\ lab.period >= 1 =>
         \A i \in Idx(lab.values) :
           /\ i < lab.period - 1 => At(lab.out, i) = Null
           /\ i >= lab.period - 1 => At(lab.out, i) # Null
           /\ (i >= lab.period - 1 /\ SumsExact(lab.values)) =>
                At(lab.out, i) = Some(Mean(lab.values, i - lab.period + 1, i))

\* sma([1, 2, 3, 4, 5], 3) = [undefined, undefined, 2, 3, 4].
C17_Witness ==
  /\ lab.fn = "sma" /\ lab.values = IndExample /\ lab.period = 3
  /\ SumsExact(lab.values)
  /\ lab.out = <<Null, Null, Some(Lit(2)), Some(Lit(3)), Some(Lit(4))>>

\* C18: for 1 <= p <= length, ema(values, p)[p-1] = sma(values, p)[p-1],
\* every earlier position is undefined, and every later position is
\* values[i] * k + ema[i-1] * (1 - k) with k = 2 / (p + 1).
C18_EmaSeedAndRecurrence ==
  (lab.fn = "ema" /\ lab.period >= 1 /\ lab.period <= Len(lab.values)) =>
    /\ Len(lab.out) = Len(lab.values)
    /\ At(lab.out, lab.period - 1) # Null
    /\ At(lab.out, lab.period - 1) = At(sma(lab.values, lab.period), lab.period - 1)
    /\ \A i \in Idx(lab.values) :
         /\ i < lab.period - 1 => At(lab.out, i) = Null
         /\ i > lab.period - 1 =>
              /\ At(lab.out, i - 1) # Null
              /\ At(lab.out, i) =
                   Some(FAdd(FMul(At(lab.values, i), FDiv(Lit(2), Lit(lab.period + 1))),
                             FMul(At(lab.out, i - 1)[1],
                                  FSub(Lit(1), FDiv(Lit(2), Lit(lab.period + 1))))))

\* An exponential average of period 2 over 4 prices that are not all equal:
\* one undefined position, the seed, and two smoothed positions.
C18_Witness ==
  /\ lab.fn = "ema" /\ lab.period = 2 /\ Len(lab.values) = IndLen
  /\ At(lab.out, 0) = Null
  /\ At(lab.out, 3) # Null /\ At(lab.out, 3) # At(lab.out, 2)

StrictlyIncreasing(values) == \A i \in 1 .. (Len(values) - 1) : values[i] < values[i + 1]
StrictlyDecreasing(values) == \A i \in 1 .. (Len(values) - 1) : values[i] > values[i + 1]

\* C19: on a strictly increasing price sequence, where the average loss is
\* 0, the index is exactly 100 (here Lit(RsiScale)) at every index >= p.
C19_RsiTopWithoutLoss ==
  (lab.fn = "rsi" /\ lab.period >= 1 /\ StrictlyIncreasing(lab.values)) =>
    \A i \in Idx(lab.values) : i >= lab.period => At(lab.out, i) = Some(Lit(RsiScale))

\* C20: on a strictly decreasing price sequence of length > p the index is
\* undefined at 0 .. p-1 and exactly 0 at every index >= p.
C20_RsiZeroOnDecrease ==
  (lab.fn = "rsi" /\ lab.period >= 1 /\ Len(lab.values) > lab.period
     /\ StrictlyDecreasing(lab.values)) =>
    \A i \in Idx(lab.values) :
      At(lab.out, i) = IF i < lab.period THEN Null ELSE Some(0)

\* A strictly decreasing sequence of the greatest length with period 2: a
\* seeded position and a smoothed one.
C20_Witness ==
  /\ lab.fn = "rsi" /\ lab.period = 2 /\ Len(lab.values) = IndLen
  /\ StrictlyDecreasing(lab.values)
  /\ At(lab.out, 1) = Null /\ At(lab.out, 2) = Some(0) /\ At(lab.out, 3) = Some(0)


\* ---------------------------------------------------------------- macd
LabFast == lab.period[1]
LabSlow == lab.period[2]
LabSignalPeriod == lab.period[3]

\* C21: at every position where the histogram is defined it is the trend
\* line less the signal line, both defined there; and wherever the fast or
\* the slow average is undefined, the trend line, the signal line and the
\* histogram are all undefined.
C21_HistIsMacdLessSignal ==
  lab.fn = "macd" =>
    \A i \in 1 .. Len(lab.values) :
      /\ lab.out.hist[i] # Null =>
           /\ lab.out.macd[i] # Null
           /\ lab.out.signal[i] # Null
           /\ lab.out.hist[i] = Some(FSub(lab.out.macd[i][1], lab.out.signal[i][1]))
      /\ (ema(lab.values, LabFast)[i] = Null \/ ema(lab.values, LabSlow)[i] = Null) =>
           /\ lab.out.macd[i] = Null
           /\ lab.out.signal[i] = Null
           /\ lab.out.hist[i] = Null

\* A call with a histogram that is defined and not zero at one position and
\* undefined at another.
C21_Witness ==
  /\ lab.fn = "macd"
  /\ \E i \in 1 .. Len(lab.values) :
       lab.out.hist[i] # Null /\ lab.out.hist[i] # Some(0)
  /\ \E i \in 1 .. Len(lab.values) :
       ema(lab.values, LabSlow)[i] = Null /\ ema(lab.values, LabFast)[i] # Null


\* The first position of the trend line, for periods of at least 1.
MacdFirst == Max2(LabFast, LabSlow) - 1

\* The trend line of the call with 0 where it is undefined.
LabZeroFilled ==
  [j \in 1 .. Len(lab.values) |-> IF lab.out.macd[j] = Null THEN 0 ELSE lab.out.macd[j][1]]

MacdCase ==
  /\ lab.fn = "macd"
  /\ LabFast >= 1 /\ LabSlow >= 1 /\ LabSignalPeriod >= 1
  /\ MacdFirst < Len(lab.values)

\* C29: with m = max(fast, slow) - 1 the first position of the trend line,
\* a signal period of at most m gives signal[m] = k * macd[m] with
\* k = 2 / (signalPeriod + 1); at every i >= m the signal is the exponential
\* average of the zero-filled trend line; and when signalPeriod - 1 > m the
\* signal and the histogram are undefined at m .. signalPeriod - 2 although
\* the trend line is defined there.
C29_SignalPrimedWithZeros ==
  MacdCase =>
    /\ LabSignalPeriod <= MacdFirst =>
         At(lab.out.signal, MacdFirst)
           = Some(FMul(At(lab.out.macd, MacdFirst)[1], Smoothing(LabSignalPeriod)))
    /\ \A i \in MacdFirst .. (Len(lab.values) - 1) :
         /\ At(lab.out.macd, i) # Null
         /\ At(lab.out.signal, i) = At(ema(LabZeroFilled, LabSignalPeriod), i)
    /\ LabSignalPeriod - 1 > MacdFirst =>
         \A i \in MacdFirst .. Min2(LabSignalPeriod - 2, Len(lab.values) - 1) :
           /\ At(lab.out.macd, i) # Null
           /\ At(lab.out.signal, i) = Null
           /\ At(lab.out.hist, i) = Null

\* A call whose signal period is at most m with a signal at m that is not
\* zero.
C29_Witness ==
  /\ MacdCase
  /\ LabSignalPeriod <= MacdFirst
  /\ At(lab.out.signal, MacdFirst) # Some(0)
  /\ At(lab.out.signal, MacdFirst) # Null


C23_GeneratorContinuity ==
  lab.fn = "rng" =>
    \A k \in 1 .. 2 :
      lab.out.runs[k] # Null =>
        /\ Len(lab.out.runs[k][1].bars) = lab.out.runs[k][1].n
        /\ lab.out.runs[k][1].n > 0 =>
             lab.out.runs[k][1].bars[1].open = toFixed2(lab.value)
        /\ \A i \in 1 .. (Len(lab.out.runs[k][1].bars) - 1) :
             lab.out.runs[k][1].bars[i + 1].open = lab.out.runs[k][1].bars[i].close

\* A run of two bars from a start price that rounding changes, the first
\* bar closing away from its open.
C23_Witness ==
  /\ lab.fn = "rng"
  /\ lab.out.runs[1] # Null
  /\ Len(lab.out.runs[1][1].bars) = GenBars
  /\ toFixed2(lab.value) # lab.value
  /\ lab.out.runs[1][1].bars[1].close # lab.out.runs[1][1].bars[1].open


\* ------------------------------------------- frame of an average edit
\* The base bar the call of the moving-average onMove edits.
LabBaseEnd == Min2(Len(lab.base) - 1, lab.index * lab.g + (lab.g - 1))

\* Bar j of the result has the high and the low of the bar before the call
\* widened to its new open and close.
WidenedOnly(j) ==
  /\ At(lab.out, j).time = At(lab.base, j).time
  /\ At(lab.out, j).high
       = Max3(At(lab.base, j).high, At(lab.out, j).open, At(lab.out, j).close)
  /\ At(lab.out, j).low
       = Min3(At(lab.base, j).low, At(lab.out, j).open, At(lab.out, j).close)

\* C28: an edit of a moving-average point at display index i and
\* granularity g changes only base bar b = min(N - 1, i * g + g - 1), its
\* close and, by widening, its high and low, and bar b + 1 if there is one,
\* its open and, by widening, its high and low; every other bar and the
\* length are unchanged.
C28_AverageEditFrame ==
  lab.fn = "ma" =>
    /\ Len(lab.out) = Len(lab.base)
    /\ \A j \in Idx(lab.base) :
         /\ j \notin {LabBaseEnd, LabBaseEnd + 1} => At(lab.out, j) = At(lab.base, j)
         /\ j = LabBaseEnd =>
              /\ At(lab.out, j).open = At(lab.base, j).open
              /\ WidenedOnly(j)
         /\ j = LabBaseEnd + 1 =>
              /\ At(lab.out, j).close = At(lab.base, j).close
              /\ At(lab.out, j).open \in {At(lab.base, j).open, At(lab.out, LabBaseEnd).close}
              /\ WidenedOnly(j)

\* An edit of a group of several bars that moves the close of bar b and the
\* open of bar b + 1, with bars before b and after b + 1.
C28_Witness ==
  /\ lab.fn = "ma"
  /\ lab.g > 1
  /\ LabBaseEnd + 2 < Len(lab.base)
  /\ At(lab.out, LabBaseEnd).close # At(lab.base, LabBaseEnd).close
  /\ At(lab.out, LabBaseEnd + 1).open # At(lab.base, LabBaseEnd + 1).open


\* ------------------------------------------------------------- viewport
\* C24: in every settled state the viewport count is an integer of at
\* least 5 (MinCount in the model), whatever the number of displayed bars.
C24_CountAtLeastMin ==
  Settled => (viewCount >= Lit(MinCount) /\ viewCount % One = 0)

\* C25: a timeframe change from granularity gOld to gNew that leaves
\* newLen = floor(N / gNew) > 0 displayed bars ends, once the effects have
\* run, with viewCount = min(max(5, round(viewCountOld * gOld / gNew)), newLen)
\* and viewStart = clamp(viewStartOld * gOld / gNew, 0, max(0, newLen - viewCount)).
C25_TimeframeRescale ==
  [][(timeframe' # timeframe /\ Len(candles') > 0) =>
       /\ viewCount' = Min2(Max2(Lit(MinCount),
                                 MathRound(FDiv(FMul(viewCount, Lit(G)),
                                                Lit(TF_TO_MINUTES[timeframe'])))),
                            Lit(Len(candles')))
       /\ viewStart' = clamp(FDiv(FMul(viewStart, Lit(G)), Lit(TF_TO_MINUTES[timeframe'])),
                             0, Max2(0, FSub(Lit(Len(candles')), viewCount')))]_vars

\* C26: in every settled state viewStart >= 0 and, whenever viewCount is at
\* most the number of displayed bars, viewStart + viewCount is at most that
\* number.
C26_ViewWithinData ==
  Settled =>
    /\ viewStart >= 0
    /\ viewCount <= Lit(Len(candles)) => viewStart + viewCount <= Lit(Len(candles))

\* A view of fewer bars than are displayed that ends at the last bar and
\* does not start at the first.
C26_Witness ==
  /\ Settled
  /\ viewStart > 0
  /\ viewCount < Lit(Len(candles))
  /\ viewStart + viewCount = Lit(Len(candles))

\* --------------------------------------------- moving-average gesture
\* The base sequence the updater of a move handled now is applied to: the
\* updaters queued before it have run.
AppliedTo == RunQueue(pending, Now, G, [i \in 1 .. Len(pending) |-> 0]).base

\* C27: every move of a moving-average drag computes its delta from
\* displayed bars that are the aggregation of the base sequence its updater
\* is applied to, also when a move is handled before the bars are recomputed.
C27_DeltaFromAppliedBase ==
  [][(isDraggingMA /\ maDragRef # Null /\ moves' = moves + 1) =>
       candles = Aggregate(AppliedTo, G)]_vars

\* ----------------------------------------------------------- add bars
\* C30: addBars(c) with c >= 1 at granularity g appends exactly c * g base
\* bars, addBar exactly g, so that the displayed sequence grows by exactly c
\* bars whatever the number of base bars before, and pushes exactly one undo
\* snapshot, the base sequence before, and empties the redo stack.
C30_AddBarsGrowth ==
  [][Len(baseCandles') > Len(baseCandles) =>
       /\ \A c \in 1 .. MaxBatch :
            AddBars(c) =>
              /\ Len(baseCandles') = Len(baseCandles) + c * G
              /\ SubSeq(baseCandles', 1, Len(baseCandles)) = baseCandles
              /\ Len(Aggregate(baseCandles', G)) = Len(Aggregate(baseCandles, G)) + c
              /\ undoStack' = Append(undoStack, baseCandles)
              /\ redoStack' = << >>
       /\ AddBar =>
            /\ Len(baseCandles') = Len(baseCandles) + G
            /\ Len(Aggregate(baseCandles', G)) = Len(Aggregate(baseCandles, G)) + 1
            /\ undoStack' = Append(undoStack, baseCandles)
            /\ redoStack' = << >>]_vars

\* Bars added at a coarser timeframe to a base sequence whose last group was
\* incomplete.
C30_Witness ==
  /\ track.stage = "done" /\ track.kind = "edit"
  /\ timeframe # "1m"
  /\ Len(track.pre) % G # 0
  /\ Len(track.post) > Len(track.pre)
  /\ baseCandles = track.post
  /\ redoStack = << >>


\* ----------------------------------------------------------- continuity
\* close[i] = open[i + 1] for every adjacent pair of s.
Continuous(s) == \A i \in 1 .. (Len(s) - 1) : s[i].close = s[i + 1].open

\* The base sequence and every stacked snapshot are continuous.
AllContinuous ==
  /\ Continuous(baseCandles)
  /\ \A i \in 1 .. Len(undoStack) : Continuous(undoStack[i])
  /\ \A i \in 1 .. Len(redoStack) : Continuous(redoStack[i])

\* The step appends generated bars.
AddStep ==
  /\ Len(baseCandles') > Len(baseCandles)
  /\ (AddBar \/ \E c \in 1 .. MaxBatch : AddBars(c))

C32_GroupEditIdempotent ==
  lab.fn = "edit" =>
    \A r \in Rand :
      applyEditToGroup(lab.out, lab.g, lab.index, lab.field, lab.value, r) = lab.out

\* The bars of the edited sequence that keep all their fields but one.
SameBut(field, a, b) ==
  /\ a.time = b.time /\ a.open = b.open /\ a.close = b.close
  /\ (field = "high" => a.low = b.low)
  /\ (field = "low" => a.high = b.high)

\* C33: an aggregate high edit changes no bar's open, close or low, an
\* aggregate low edit changes no bar's open, close or high, and neither
\* changes a bar outside [start, end] or the length of the sequence.
C33_ExtremeEditFrame ==
  (lab.fn = "edit" /\ lab.field \in {"high", "low"}) =>
    /\ Len(lab.out) = Len(lab.base)
    /\ \A k \in 1 .. Len(lab.base) :
         /\ SameBut(lab.field, lab.out[k], lab.base[k])
         /\ ((k - 1) < LabStart \/ (k - 1) > LabEnd) => lab.out[k] = lab.base[k]

\* A lowering high edit of the first group that changed the highs of two
\* of its bars, in a sequence that has bars after the group.
C33_Witness ==
  /\ LabComplete /\ lab.field = "high" /\ lab.index = 0
  /\ Len(lab.base) > LabEnd + 1
  /\ lab.value < GroupHigh
  /\ Cardinality({k \in LabGroup : At(lab.out, k).high # At(lab.base, k).high}) >= 2
  /\ \E k \in LabGroup : At(lab.base, k).low < Min2(At(lab.base, k).open, At(lab.base, k).close)

\* ------------------------------------------------------ undo and redo
\* k undos, and k redos, one after the other.
RECURSIVE Undos(_, _)
Undos(st, k) == IF k = 0 THEN st ELSE Undos(undo(st), k - 1)

RECURSIVE Redos(_, _)
Redos(st, k) == IF k = 0 THEN st ELSE Redos(redo(st), k - 1)

Stacked(st) == Len(st.undo) + Len(st.redo)

\* In every reachable state: an undo on an empty undo stack and a redo on an
\* empty redo stack change nothing; an undo that succeeds takes one entry
\* off the undo stack and puts one on the redo stack, and a redo the
\* converse; and k undos that succeed followed by k redos give the base
\* sequence and both stacks back.
UndoRedoLaws ==
  /\ Len(undoStack) = 0 => undo(Stacks) = Stacks
  /\ Len(redoStack) = 0 => redo(Stacks) = Stacks
  /\ Len(undoStack) > 0 =>
       /\ Len(undo(Stacks).undo) = Len(undoStack) - 1
       /\ Len(undo(Stacks).redo) = Len(redoStack) + 1
  /\ Len(redoStack) > 0 =>
       /\ Len(redo(Stacks).redo) = Len(redoStack) - 1
       /\ Len(redo(Stacks).undo) = Len(undoStack) + 1
  /\ \A k \in 0 .. Len(undoStack) : Redos(Undos(Stacks, k), k) = Stacks

\* C34: undo on an empty undo stack and redo on an empty redo stack leave
\* the base sequence and both stacks unchanged; every successful undo moves
\* exactly one entry from the undo stack to the redo stack and every
\* successful redo one entry back, so that no Undo or Redo step changes the
\* total number of stacked snapshots; and k undos followed by k redos return
\* the base sequence and both stacks to their prior values.
C34_UndoRedoStacks ==
  /\ []UndoRedoLaws
  /\ [][(Len(undoStack') # Len(undoStack) /\ (Undo \/ Redo)) =>
          Len(undoStack') + Len(redoStack') = Len(undoStack) + Len(redoStack)]_vars

\* An edit was undone and redone: the base sequence after the edit is back,
\* with the snapshot of the edit on the undo stack and nothing to redo.
C34_Witness ==
  /\ track.stage = "redone"
  /\ baseCandles = track.post /\ track.post # track.pre
  /\ Len(undoStack) >= 1 /\ undoStack[Len(undoStack)] = track.pre
  /\ Len(redoStack) = 0

\* ---------------------------------------------------------- bar numbers
\* C35: in every reachable state the bar at index i of the base sequence
\* has time i, whatever generations, additions, removals, edits, undos,
\* redos and resets came before.
C35_TimeIsIndex ==
  \A i \in 1 .. Len(baseCandles) : baseCandles[i].time = i - 1

\* Bars were added twice and the second addition undone: the base sequence
\* is longer than the generated one and ends with an appended bar.
C35_Witness ==
  /\ Len(baseCandles) > InitBars
  /\ Len(redoStack) >= 1 /\ Len(redoStack[1]) > Len(baseCandles)
  /\ baseCandles[Len(baseCandles)].time = Len(baseCandles) - 1

\* ------------------------------------------------------- widening only
\* The direct call was an open or close edit: of a group, of a 1m bar, or
\* of a moving-average point (which moves a close).
BodyEdit ==
  \/ lab.fn \in {"edit", "edit1m"} /\ lab.field \in {"open", "close"}
  \/ lab.fn = "ma"

\* No bar's high is lower and no bar's low is higher than before the call.
OnlyWidened ==
  BodyEdit =>
    /\ Len(lab.out) = Len(lab.base)
    /\ \A k \in 1 .. Len(lab.base) :
         lab.out[k].high >= lab.base[k].high /\ lab.out[k].low <= lab.base[k].low

\* The edit applied again to its result, with the original value of the
\* field as the target.
EditedBack ==
  IF lab.fn = "edit"
    THEN applyEditToGroup(lab.out, lab.g, lab.index, "open",
                          At(lab.base, LabStart).open, 0)
    ELSE Edit1m(lab.out, lab.index, "open", At(lab.base, LabStart).open)

\* An open edit that is in range.
OpenEdit ==
  /\ lab.fn \in {"edit", "edit1m"} /\ lab.field = "open"
  /\ lab.index >= 0 /\ LabStart < Len(lab.base)

\* Editing the open back to its original value restores the open and the
\* close of the bar before.
OpenRestored ==
  OpenEdit =>
    /\ At(EditedBack, LabStart).open = At(lab.base, LabStart).open
    /\ LabStart > 0 => At(EditedBack, LabStart - 1).close = At(lab.base, LabStart - 1).close

\* C36: an open or close edit (of a group, of a 1m bar, or through a
\* moving-average point) lowers no bar's high and raises no bar's low, and
\* editing an open to T and back to its original value restores the open
\* and the close of the bar before it.
C36_BodyEditsOnlyWiden == OnlyWidened /\ OpenRestored

\* An open edit widened a bar, and the edit back to the original open left
\* that bar wider than it was.
WidenedForGood ==
  /\ OpenEdit
  /\ At(EditedBack, LabStart).open = At(lab.base, LabStart).open
  /\ \/ At(EditedBack, LabStart).high > At(lab.base, LabStart).high
     \/ At(EditedBack, LabStart).low < At(lab.base, LabStart).low

\* ------------------------------------------------------------ rsi range
\* C37: for every input sequence and every period p >= 1, positions
\* 0 .. p - 1 of rsi(values, p) are undefined, every position >= p is
\* defined, and every defined value lies between 0 and 100 (RsiScale in the
\* model), the ends included.
C37_RsiRange ==
  (lab.fn = "rsi" /\ lab.period >= 1) =>
    /\ Len(lab.out) = Len(lab.values)
    /\ \A i \in Idx(lab.values) :
         IF i < lab.period THEN At(lab.out, i) = Null
         ELSE /\ At(lab.out, i) # Null
              /\ At(lab.out, i)[1] >= 0
              /\ At(lab.out, i)[1] <= Lit(RsiScale)

\* A sequence that rises and falls, long enough for a seeded and a smoothed
\* value, both strictly inside the range.
C37_Witness ==
  /\ lab.fn = "rsi" /\ lab.period = 2 /\ Len(lab.values) = IndLen
  /\ At(lab.out, 1) = Null
  /\ \A i \in 2 .. 3 :
       /\ At(lab.out, i) # Null
       /\ At(lab.out, i)[1] > 0 /\ At(lab.out, i)[1] < Lit(RsiScale)

====
